---- MODULE Spec2Model ----
(***************************************************************************)
(* The HID session of licence-tool: AbstractHIDClient / HIDClient          *)
(* (connect, disconnect, sendReport, sendFeatureReport, receivePacket),    *)
(* DongleClient (getCounter, sendFragmentedData, receiveFragmentedData)    *)
(* and the callers in the provider and the auto-license page.              *)
(*                                                                         *)
(* One JavaScript task (an event callback, a timer callback, the code of   *)
(* an async function between two awaits) is one action.  The continuation  *)
(* of an await on a promise that a callback settles runs in the microtask  *)
(* checkpoint that follows the callback, before any other timer or event,  *)
(* so it is part of the action of that callback.                           *)
(***************************************************************************)
EXTENDS Integers, Sequences, FiniteSets, Bags, TLC

\* ------------------------------------------------------------------ bounds
MaxDevices == 2      \* HIDDevice objects the backend can hand out
MaxOps == 3          \* calls the user interface makes on the session in one behaviour
MaxRx == 2           \* inbound reports are delivered until MaxRx were logged as received

\* --------------------------------------------------------- program constants
GET_LICENSE_IN == 1
GET_LICENSE_OUT == 2
GET_COUNTER_IN == 3
GET_COUNTER_OUT == 4
GET_UUID_REQUEST == 128
GET_UUID_RESPONSE == 129
STORE_LICENSE == 130
REPORT_SIZE == 64
UuidTimeoutMs == 2000
LICENSE_CHUNK_SIZE == 63
UUID_LENGTH == 128        \* payload.length !== 128
LICENSE_LENGTH == 256     \* new Uint8Array(256)
LICENSE_PACKETS == 5      \* for (let i = 0; i < 5; i++)
REPORT_DATA_LENGTH == 63  \* new Uint8Array(63)
CHUNK1_END == 62          \* payload.slice(0, 62)
CHUNK2_END == 124         \* payload.slice(62, 124)
CHUNK3_END == 128         \* payload.slice(124, 128)
LicenseTimeoutMs == 3000
DefaultTimeoutMs == 2000
CounterTimeoutMs == 2000
TickMs == DefaultTimeoutMs   \* the model's unit of time

Devices == 1..MaxDevices
Tasks == 1..MaxOps
WaitIds == 1..(MaxOps * LICENSE_PACKETS)   \* a task makes at most 5 receivePacket calls
NoDevice == 0                    \* this.device === null
InboundIds == {GET_LICENSE_IN, GET_COUNTER_IN}
Payloads == {<<5, 0>>, <<0, 1>>}   \* counter responses 5 and 256
Zeros(n) == [i \in 1..n |-> 0]   \* new Uint8Array(n)

VARIABLES
  hid,          \* navigator.hid is there: the browser has the WebHID capability
  uiError,      \* the provider's connectionState.error ("" for null)
  device,       \* AbstractHIDClient.device: NoDevice or a device
  opened,       \* HIDDevice.opened, per device
  listeners,    \* per device, the 'inputreport' handlers in registration order
  conn,         \* position of the connect() call in flight; prev, history: this.device when it began
  dsc,          \* position of the disconnect() call in flight
  nOps,         \* calls made on the session so far
  uiConnected,  \* the provider's connectionState.isConnected
  dlisten,      \* the devices that carry the provider's 'disconnect' listener
  wait,         \* per receivePacket call: its promise, timer and handler closure
  nextWait,     \* number of receivePacket calls that registered a wait
  task,         \* per caller: the client operation it runs and where it is
  log,          \* the entries handed to onLog, as a bag
  wire,         \* the calls made on the transport (HIDDevice.sendReport ...)
  dongle,       \* the dongle firmware: requests answered, reports it still has to deliver
  page          \* the auto-license page: its React state and its run of handleStartProcess

vars == <<hid, uiError, device, opened, listeners, conn, dsc, nOps, uiConnected, dlisten,
          wait, nextWait, task, log, wire, dongle, page>>

\* ------------------------------------------------------------------ helpers
Remove(s, x) == SelectSeq(s, LAMBDA y : y # x)
InSeq(x, s) == \E i \in 1..Len(s) : s[i] = x
LogEntry(type, id) == [type |-> type, id |-> id]
Logged(l, e) == l (+) SetToBag({e})
\* a receivePacket call: st, result, err are its promise; armed, left its timer; id and
\* owner what its closure holds.  History kept for the properties: dev, the device the
\* handler was added to; first, the first matching report handed to the handler while
\* the promise was pending; other, whether a non-matching report was handed to it
\* before; disc, whether its device was unplugged or closed while it was pending
FreshWait == [st |-> "none", id |-> 0, owner |-> 0, armed |-> FALSE, left |-> 0,
              result |-> <<>>, err |-> "", dev |-> 0, first |-> <<>>, other |-> FALSE,
              disc |-> FALSE]
\* a client call: op, pc where it is, res / err its outcome; arg its argument; i, buf,
\* offset the locals of its loop.  History: got, the packets its waits resolved with
FreshTask == [op |-> "none", pc |-> "idle", res |-> <<>>, err |-> "", arg |-> <<>>,
              i |-> 0, buf |-> <<>>, offset |-> 0, got |-> <<>>]
Min(a, b) == IF a < b THEN a ELSE b
\* the auto-license page after its first render: client, mock, counter, step are
\* `client`, `mockDevice`, `counter`, `currentStep` (no client, no mock device, no
\* counter, 'idle'); chk, the task of the handleCheckCounter in flight; pc, t, where
\* handleStartProcess is and the task it runs on; uuid and recheck its locals
\* deviceUuid and newCounter.  History of the run: calls, the operations it invoked
\* in order; done, how many of them succeeded; returned, what receiveFragmentedData
\* returned; written, the argument given to writeLicense
FreshPage == [client |-> FALSE, mock |-> <<>>, counter |-> <<>>, step |-> "idle",
              chk |-> 0, pc |-> "idle", t |-> 0, uuid |-> <<>>, recheck |-> <<>>,
              calls |-> <<>>, done |-> 0, returned |-> <<>>, written |-> <<>>]

\* ----------------------------------------------------------------- framing
\* Chunks with a last slice that stops one byte early
ChunksShort(payload) ==
  << SubSeq(payload, 1, CHUNK1_END),
     SubSeq(payload, CHUNK1_END + 1, CHUNK2_END),
     SubSeq(payload, CHUNK2_END + 1, CHUNK3_END - 1) >>

\* LengthPrefixedReport without the length byte: reportData.set(chunk, 0)
ReportWithoutLength(chunk) ==
  [j \in 1..REPORT_DATA_LENGTH |-> IF j <= Len(chunk) THEN chunk[j] ELSE 0]

\* ReassembleStep without `offset += length`
ReassembleKeepsOffset(buf, offset, packet) ==
  LET length == packet[1]
      data == SubSeq(packet, 2, IF 1 + length < Len(packet) THEN 1 + length ELSE Len(packet))
  IN [thrown |-> offset + Len(data) > Len(buf),
      buf |-> [j \in 1..Len(buf) |->
                 IF offset < j /\ j <= offset + Len(data) THEN data[j - offset] ELSE buf[j]],
      offset |-> offset]

\* ReassembleStep that takes the data from the first byte of the packet on
ReassembleFromLengthByte(buf, offset, packet) ==
  LET length == packet[1]
      data == SubSeq(packet, 1, length)
  IN [thrown |-> offset + Len(data) > Len(buf),
      buf |-> [j \in 1..Len(buf) |->
                 IF offset < j /\ j <= offset + Len(data) THEN data[j - offset] ELSE buf[j]],
      offset |-> offset + length]

\* Uint8Array.slice(from, to), 0-based and end-exclusive, clamped to the array
Slice(a, from, to) == SubSeq(a, Min(from, Len(a)) + 1, Min(to, Len(a)))

\* sendFragmentedData: the three chunks of the payload
Chunks(payload) ==
  << Slice(payload, 0, CHUNK1_END),
     Slice(payload, CHUNK1_END, CHUNK2_END),
     Slice(payload, CHUNK2_END, CHUNK3_END) >>

\* sendFragmentedData: reportData = new Uint8Array(63); reportData[0] = chunk.length;
\* reportData.set(chunk, 1)
LengthPrefixedReport(chunk) ==
  [j \in 1..REPORT_DATA_LENGTH |->
     IF j = 1 THEN Len(chunk) % 256
     ELSE IF j - 1 <= Len(chunk) THEN chunk[j - 1]
     ELSE 0]

\* receiveFragmentedData, one round of its loop on a received packet: length =
\* packet[0]; data = packet.slice(1, 1 + length); fullBuffer.set(data, offset), which
\* throws a RangeError when data does not fit; offset += length
ReassembleStep(buf, offset, packet) ==
  LET length == packet[1]
      data == Slice(packet, 1, 1 + length)
  IN [thrown |-> offset + Len(data) > Len(buf),
      buf |-> [j \in 1..Len(buf) |->
                 IF offset < j /\ j <= offset + Len(data) THEN data[j - offset] ELSE buf[j]],
      offset |-> offset + length]

\* ------------------------------------------------------------------ inputs
\* the 128-byte identifiers handed to sendFragmentedData, and payloads of the lengths
\* 0, 127 and 129
Uuid(k) == [i \in 1..UUID_LENGTH |-> (i * (2 * k + 1) + 7 * k) % 256]
Uuids == {Uuid(0), Uuid(1)}
BadUuids == {<<>>, SubSeq(Uuid(0), 1, UUID_LENGTH - 1), Append(Uuid(0), 0)}

\* the 256-byte licenses the dongle answers with
License(k) == [i \in 1..LICENSE_LENGTH |-> (i * (2 * k + 3) + 11 * k + 1) % 256]
Licenses == {License(0), License(1)}

\* the data lengths of the dongle's five reports: "4x 62 bytes, 1x 8 bytes"
SplitPlans == {<<62, 62, 62, 62, 8>>}

RECURSIVE SumTo(_, _)
SumTo(plan, k) == IF k = 0 THEN 0 ELSE plan[k] + SumTo(plan, k - 1)

\* the reports the dongle sends for license lic cut by plan, each
\* [Length (1B)] [Data (N)] [Padding]
SplitLicense(lic, plan) ==
  [k \in 1..Len(plan) |->
     LengthPrefixedReport(Slice(lic, SumTo(plan, k - 1), SumTo(plan, k)))]

Responses == {SplitLicense(lic, plan) : lic \in Licenses, plan \in SplitPlans}

\* an inbound report of REPORT_DATA_LENGTH bytes whose first byte is length and whose
\* next bytes are data, zero-padded
InboundReport(length, data) ==
  [j \in 1..REPORT_DATA_LENGTH |->
     IF j = 1 THEN length ELSE IF j - 1 <= Len(data) THEN data[j - 1] ELSE 0]

\* five reports whose length bytes sum to 252: the last one carries 4 bytes, not 8
ShortResponse ==
  SplitLicense(License(0), <<62, 62, 62, 62, 4>>)

\* five full reports of 62 bytes each, 310 bytes in all
LongResponse ==
  [k \in 1..LICENSE_PACKETS |-> InboundReport(62, SubSeq(License(1), 1, 62))]

\* reports whose length byte (100) states more than the 62 bytes they carry
OverstatedResponse ==
  << InboundReport(100, SubSeq(License(0), 1, 62)),
     InboundReport(100, SubSeq(License(0), 63, 124)),
     InboundReport(56, SubSeq(License(0), 125, 180)),
     InboundReport(0, <<>>),
     InboundReport(0, <<>>) >>

FaultyResponses == {ShortResponse, LongResponse, OverstatedResponse}

\* isConnected(): this.device !== null && this.device.opened
isConnected == device # NoDevice /\ opened[device]
NotSupported == "WebHID is not supported in this browser."
NoDeviceSelected == "No device selected."

\* the state the callbacks of one JavaScript task work on
Cur == [wait |-> wait, listeners |-> listeners, task |-> task, log |-> log,
        nextWait |-> nextWait, wire |-> wire]

\* ------------------------------------------------------------ receivePacket
\* the two getCounter: DongleClient's rethrows what it catches, HIDClient's returns null
CounterOps == {"getCounter", "HIDClient.getCounter"}
UuidIncomplete == "UUID must be 128 bytes (got fewer)"
LicenseLengthError == "License must be 256 bytes"
Null == <<>>

\* AwaitRejected with a receiveFragmentedData that catches the error and returns
\* the buffer it has filled so far
AwaitRejectedReturnsBuffer(s, t, e) ==
  IF s.task[t].op = "receiveFragmentedData"
  THEN [s EXCEPT !.task[t] = [@ EXCEPT !.pc = "ok", !.res = s.task[t].buf]]
  ELSE [s EXCEPT !.task[t] = [@ EXCEPT !.pc = "failed", !.err = e]]

\* AwaitRejected whose multi-packet readUUID returns the whole 128-byte buffer
AwaitRejectedPadsPartial(s, t, e) ==
  IF s.task[t].offset = 0
  THEN [s EXCEPT !.task[t] = [@ EXCEPT !.pc = "failed", !.err = e]]
  ELSE [s EXCEPT !.log = Logged(@, LogEntry("error", GET_UUID_RESPONSE)),
                 !.task[t] = [@ EXCEPT !.pc = "ok", !.res = s.task[t].buf]]

\* AwaitRejected of a getCounter that sends its request again after a failed wait
AwaitRejectedRetries(s, t, e) ==
  IF s.task[t].op \in CounterOps
  THEN [s EXCEPT !.log = Logged(Logged(@, LogEntry("error", GET_COUNTER_IN)),
                                LogEntry("tx", GET_COUNTER_OUT)),
                 !.wire = Append(@, [dev |-> device, kind |-> "output", by |-> t,
                                     id |-> GET_COUNTER_OUT, data |-> Zeros(63)]),
                 !.task[t] = [@ EXCEPT !.pc = "sending"]]
  ELSE [s EXCEPT !.task[t] = [@ EXCEPT !.pc = "failed", !.err = e]]

\* what the function awaiting receivePacket does once the promise is rejected:
\* DongleClient.getCounter logs the error and rethrows it, the others let it pass
AwaitRejected(s, t, e) ==
  CASE s.task[t].op = "getCounter" ->
         [s EXCEPT !.log = Logged(@, LogEntry("error", GET_COUNTER_IN)),
                   !.task[t] = [@ EXCEPT !.pc = "failed", !.err = e]]
    [] s.task[t].op = "HIDClient.getCounter" ->
         \* HIDClient.getCounter: catch (e) { log; return null }
         [s EXCEPT !.log = Logged(@, LogEntry("error", GET_COUNTER_IN)),
                   !.task[t] = [@ EXCEPT !.pc = "ok", !.res = Null]]
    [] s.task[t].op = "readUUIDMulti" ->
         \* multi-packet readUUID: catch (e) { if (bytesRead === 0) throw e; break }
         IF s.task[t].offset = 0
         THEN [s EXCEPT !.task[t] = [@ EXCEPT !.pc = "failed", !.err = e]]
         ELSE [s EXCEPT !.log = Logged(@, LogEntry("error", GET_UUID_RESPONSE)),
                        !.task[t] = [@ EXCEPT !.pc = "ok",
                                              !.res = SubSeq(s.task[t].buf, 1, s.task[t].offset)]]
    [] OTHER -> [s EXCEPT !.task[t] = [@ EXCEPT !.pc = "failed", !.err = e]]

\* ReceivePacket without the test of this.device.opened
ReceivePacketUnopened(s, t, expectedReportId, timeoutMs) ==
  IF device = NoDevice
  THEN [s EXCEPT !.task[t] = [@ EXCEPT !.pc = "failed", !.err = "Device disconnected"]]
  ELSE LET w == s.nextWait + 1 IN
       [s EXCEPT !.nextWait = w,
                 !.wait[w] = [FreshWait EXCEPT !.st = "pending", !.id = expectedReportId,
                                               !.owner = t, !.armed = TRUE, !.dev = device,
                                               !.left = timeoutMs \div TickMs],
                 !.listeners[device] = Append(@, w),
                 !.task[t] = [@ EXCEPT !.pc = "waiting"]]

\* receivePacket(expectedReportId, timeoutMs) called by task t, and the await on it
ReceivePacket(s, t, expectedReportId, timeoutMs) ==
  IF ~isConnected
  THEN AwaitRejected(s, t, "Device disconnected")
  ELSE LET w == s.nextWait + 1 IN
       [s EXCEPT !.nextWait = w,
                 !.wait[w] = [FreshWait EXCEPT !.st = "pending", !.id = expectedReportId,
                                               !.owner = t, !.armed = TRUE, !.dev = device,
                                               !.left = timeoutMs \div TickMs],
                 !.listeners[device] = Append(@, w),
                 !.task[t] = [@ EXCEPT !.pc = "waiting"]]

\* a | b on non-negative integers
RECURSIVE BitOr(_, _)
BitOr(a, b) ==
  IF a = 0 /\ b = 0 THEN 0
  ELSE (IF a % 2 = 1 \/ b % 2 = 1 THEN 1 ELSE 0) + 2 * BitOr(a \div 2, b \div 2)

\* response[i] in a bitwise expression: an index beyond the array reads as 0
ByteAt(response, i) == IF i < Len(response) THEN response[i + 1] ELSE 0

\* CounterValue with the two bytes taken in the other order
CounterValueBigEndian(response) ==
  BitOr(ByteAt(response, 1), ByteAt(response, 0) * 256)

\* getCounter: cLow | (cHigh << 8) of response[0], response[1]; the elements of a
\* Uint8Array are below 256, so the 32-bit shift never wraps
CounterValue(response) ==
  BitOr(ByteAt(response, 0), ByteAt(response, 1) * 256)

\* receiveFragmentedData once its wait is fulfilled with packet: the rest of the round
\* of its loop, then the next receivePacket or, after 5 rounds, return fullBuffer
FragmentReceived(s, t, packet) ==
  LET r == ReassembleStep(s.task[t].buf, s.task[t].offset, packet)
      s1 == [s EXCEPT !.task[t] = [@ EXCEPT !.got = Append(@, packet)]]
  IN IF r.thrown
     THEN [s1 EXCEPT !.task[t] = [@ EXCEPT !.pc = "failed", !.err = "RangeError"]]
     ELSE LET s2 == [s1 EXCEPT !.task[t] = [@ EXCEPT !.buf = r.buf, !.offset = r.offset,
                                                      !.i = @ + 1]]
          IN IF s2.task[t].i < LICENSE_PACKETS
             THEN ReceivePacket(s2, t, GET_LICENSE_IN, LicenseTimeoutMs)
             ELSE [s2 EXCEPT !.task[t] = [@ EXCEPT !.pc = "ok", !.res = r.buf]]

\* multi-packet readUUID, the body of its loop after await receivePacket
UuidPacketReceived(s, t, packet) ==
  LET s1 == [s EXCEPT !.task[t] = [@ EXCEPT !.got = Append(@, packet)]]
      bytesRead == s.task[t].offset
      toCopy == Min(Len(packet), UUID_LENGTH - bytesRead)
      uuidBuffer == [i \in 1..UUID_LENGTH |->
                       IF i > bytesRead /\ i <= bytesRead + toCopy
                       THEN packet[i - bytesRead] ELSE s.task[t].buf[i]]
  IN IF Len(packet) >= UUID_LENGTH /\ bytesRead = 0
     THEN [s1 EXCEPT !.task[t] = [@ EXCEPT !.pc = "ok", !.res = SubSeq(packet, 1, UUID_LENGTH)]]
     ELSE LET s2 == [s1 EXCEPT !.task[t] = [@ EXCEPT !.buf = uuidBuffer,
                                                      !.offset = bytesRead + toCopy]]
          IN IF s2.task[t].offset < UUID_LENGTH
             THEN ReceivePacket(s2, t, GET_UUID_RESPONSE, UuidTimeoutMs)
             ELSE [s2 EXCEPT !.log = Logged(@, LogEntry("success", GET_UUID_RESPONSE)),
                             !.task[t] = [@ EXCEPT !.pc = "ok", !.res = uuidBuffer]]

\* AwaitFulfilled that returns the response as it came, whatever its length
AwaitFulfilledWholeResponse(s, t, data) ==
  [s EXCEPT !.task[t] = [@ EXCEPT !.pc = "ok", !.res = data]]

\* what the function awaiting receivePacket does once the promise is fulfilled
AwaitFulfilled(s, t, data) ==
  CASE s.task[t].op \in CounterOps ->
         [s EXCEPT !.log = Logged(@, LogEntry("success", GET_COUNTER_IN)),
                   !.task[t] = [@ EXCEPT !.pc = "ok", !.res = <<CounterValue(data)>>]]
    [] s.task[t].op = "receiveFragmentedData" -> FragmentReceived(s, t, data)
    [] s.task[t].op = "readUUID" ->
         \* TargetDeviceClient.readUUID: response.byteLength < 128 throws
         IF Len(data) < UUID_LENGTH
         THEN [s EXCEPT !.log = Logged(@, LogEntry("error", GET_UUID_RESPONSE)),
                        !.task[t] = [@ EXCEPT !.pc = "failed", !.err = UuidIncomplete]]
         ELSE [s EXCEPT !.log = Logged(@, LogEntry("success", GET_UUID_RESPONSE)),
                        !.task[t] = [@ EXCEPT !.pc = "ok",
                                              !.res = SubSeq(data, 1, UUID_LENGTH)]]
    [] s.task[t].op = "readUUIDMulti" -> UuidPacketReceived(s, t, data)
    [] OTHER -> [s EXCEPT !.task[t] = [@ EXCEPT !.pc = "ok", !.res = data]]

\* resolve(data) of the promise of wait w: a settled promise stays as it is
Resolve(s, w, data) ==
  IF s.wait[w].st # "pending" THEN s
  ELSE AwaitFulfilled([s EXCEPT !.wait[w] = [@ EXCEPT !.st = "resolved", !.result = data]],
                      s.wait[w].owner, data)

\* reject(new Error(e)) of the promise of wait w
Reject(s, w, e) ==
  IF s.wait[w].st # "pending" THEN s
  ELSE AwaitRejected([s EXCEPT !.wait[w] = [@ EXCEPT !.st = "rejected", !.err = e]],
                     s.wait[w].owner, e)

\* Cleanup without its clearTimeout(timer)
CleanupKeepsTimer(s, w) ==
  [s EXCEPT !.listeners = IF device # NoDevice
                          THEN [@ EXCEPT ![device] = Remove(@, w)]
                          ELSE @]

\* cleanup(): clearTimeout(timer); if (this.device) this.device.removeEventListener(handler)
Cleanup(s, w) ==
  [s EXCEPT !.wait[w] = [@ EXCEPT !.armed = FALSE],
            !.listeners = IF device # NoDevice
                          THEN [@ EXCEPT ![device] = Remove(@, w)]
                          ELSE @]

\* Handler without its test of event.reportId
HandlerAnyReport(s, w, reportId, data) ==
  Resolve(Cleanup([s EXCEPT !.log = Logged(@, LogEntry("rx", reportId))], w), w, data)

\* handler(event) of wait w for an inbound report (reportId, data)
Handler(s, w, reportId, data) ==
  IF reportId = s.wait[w].id
  THEN Resolve(Cleanup([s EXCEPT !.log = Logged(@, LogEntry("rx", reportId))], w), w, data)
  ELSE s

\* TimerCallback that cleans up and leaves the promise as it is
TimerCallbackCleanupOnly(s, w) == Cleanup(s, w)

\* the timer callback of wait w
TimerCallback(s, w) ==
  Reject(Cleanup(s, w), w, "Timeout waiting for packet")

\* dispatch of one 'inputreport' event to the handlers that were registered on the
\* device when the dispatch began, in registration order
RECURSIVE Dispatch(_, _, _, _)
Dispatch(s, hs, reportId, data) ==
  IF hs = <<>> THEN s
  ELSE Dispatch(Handler(s, Head(hs), reportId, data), Tail(hs), reportId, data)

\* ------------------------------------------------------- sendReport and co.
\* SendReport with a guard that tests this.device alone, not this.device.opened
SendReportUnopened(s, t, reportId, data) ==
  IF device = NoDevice
  THEN [s EXCEPT !.task[t] = [@ EXCEPT !.pc = "failed", !.err = "Device not connected"]]
  ELSE [s EXCEPT !.log = Logged(@, LogEntry("tx", reportId)),
                 !.wire = Append(@, [dev |-> device, kind |-> "output", by |-> t,
                                     id |-> reportId, data |-> data]),
                 !.task[t] = [@ EXCEPT !.pc = "sending"]]

\* sendReport(reportId, data) by task t up to its await: the guard, logPacket('tx'),
\* and the call of device.sendReport
SendReport(s, t, reportId, data) ==
  IF ~isConnected
  THEN [s EXCEPT !.task[t] = [@ EXCEPT !.pc = "failed", !.err = "Device not connected"]]
  ELSE [s EXCEPT !.log = Logged(@, LogEntry("tx", reportId)),
                 !.wire = Append(@, [dev |-> device, kind |-> "output", by |-> t,
                                     id |-> reportId, data |-> data]),
                 !.task[t] = [@ EXCEPT !.pc = "sending"]]

\* sendFeatureReport(reportId, data) by task t up to its await
SendFeatureReport(s, t, reportId, data) ==
  IF ~isConnected
  THEN [s EXCEPT !.task[t] = [@ EXCEPT !.pc = "failed", !.err = "Device not connected"]]
  ELSE [s EXCEPT !.log = Logged(@, LogEntry("info", reportId)),
                 !.wire = Append(@, [dev |-> device, kind |-> "feature", by |-> t,
                                     id |-> reportId, data |-> data]),
                 !.task[t] = [@ EXCEPT !.pc = "sending"]]

\* the variables a callback state s stands for take the values of s
Commit(s) ==
  /\ wait' = s.wait
  /\ listeners' = s.listeners
  /\ task' = s.task
  /\ log' = s.log
  /\ nextWait' = s.nextWait
  /\ wire' = s.wire

clientVars == <<hid, uiError, device, opened, conn, dsc, uiConnected, dlisten>>
sessionVars == <<clientVars, page>>

\* ------------------------------------------------------------------- Init
Init ==
  /\ hid \in BOOLEAN
  /\ uiError = ""
  /\ device = NoDevice
  /\ opened = [d \in Devices |-> FALSE]
  /\ listeners = [d \in Devices |-> <<>>]
  /\ conn = [pc |-> "idle", dev |-> NoDevice, prev |-> NoDevice]
  /\ dsc = [pc |-> "idle", dev |-> NoDevice]
  /\ nOps = 0
  /\ uiConnected = FALSE
  /\ dlisten = {}
  /\ wait = [w \in WaitIds |-> FreshWait]
  /\ nextWait = 0
  /\ task = [t \in Tasks |-> FreshTask]
  /\ log = EmptyBag
  /\ wire = <<>>
  /\ dongle = [answered |-> [d \in Devices |-> 0], dev |-> NoDevice, queue |-> <<>>]
  /\ page = FreshPage

\* --------------------------------------------------- connect / disconnect
\* ConnectUnsupported that goes on to request and open a device
ConnectUnsupportedRequests ==
  /\ ~hid
  /\ conn.pc = "idle"
  /\ device' = 1
  /\ conn' = [pc |-> "open", dev |-> 1, prev |-> device]
  /\ UNCHANGED <<page, hid, uiError, opened, listeners, dsc, nOps, uiConnected, dlisten,
                 wait, nextWait, task, log, wire, dongle>>

\* provider connect -> client.connect() without navigator.hid:
\* throw new Error("WebHID is not supported in this browser."); the provider keeps
\* the message in connectionState.error
ConnectUnsupported ==
  /\ ~hid
  /\ conn.pc = "idle"
  /\ uiError' = NotSupported
  /\ UNCHANGED <<page, hid, device, opened, listeners, conn, dsc, nOps, uiConnected, dlisten,
                 wait, nextWait, task, log, wire, dongle>>

\* provider connect -> client.connect(), resumed after `await requestDevice` with no
\* device: throw new Error("No device selected.")
ConnectNoDevice ==
  /\ hid
  /\ conn.pc = "idle"
  /\ uiError' = NoDeviceSelected
  /\ UNCHANGED <<page, hid, device, opened, listeners, conn, dsc, nOps, uiConnected, dlisten,
                 wait, nextWait, task, log, wire, dongle>>

\* the backend has not handed out device d so far, or nothing is left of it
Unused(d) ==
  /\ ~opened[d] /\ listeners[d] = <<>> /\ d \notin dlisten
  /\ device # d /\ conn.dev # d /\ dsc.dev # d /\ dongle.dev # d
  /\ \A i \in 1..Len(wire) : wire[i].dev # d
  /\ \A w \in WaitIds : wait[w].dev # d

\* provider connect -> client.connect(), resumed after `await requestDevice` with
\* device d: this.device = devices[0]; an open device is returned at once (and the
\* provider marks the session connected), else open() is awaited.  The backend's
\* device objects are numbered in the order it hands them out
ConnectPick(d) ==
  /\ hid
  /\ nOps < MaxOps
  /\ \A e \in Devices : e < d => ~Unused(e)
  /\ conn.pc = "idle"
  /\ nOps' = nOps + 1
  /\ device' = d
  /\ IF opened[d]
     THEN /\ log' = Logged(log, LogEntry("success", 0))
          /\ uiConnected' = TRUE
          /\ uiError' = ""
          /\ dlisten' = dlisten \cup {d}
          /\ UNCHANGED conn
     ELSE /\ conn' = [pc |-> "open", dev |-> d, prev |-> device]
          /\ UNCHANGED <<log, uiConnected, uiError, dlisten>>
  /\ UNCHANGED <<page, hid, opened, listeners, dsc, wait, nextWait, task, wire, dongle>>

\* open() resolved: log(`Connected: ${this.device.productName}`) and return; the
\* property read throws when disconnect() cleared this.device in the meantime
ConnectOpened ==
  /\ conn.pc = "open"
  /\ opened' = [opened EXCEPT ![conn.dev] = TRUE]
  /\ conn' = [pc |-> "idle", dev |-> NoDevice, prev |-> NoDevice]
  /\ IF device = NoDevice
     THEN /\ uiError' = "TypeError"
          /\ UNCHANGED <<log, uiConnected, dlisten>>
     ELSE /\ log' = Logged(log, LogEntry("success", 0))
          /\ uiConnected' = TRUE
          /\ uiError' = ""
          /\ dlisten' = dlisten \cup {device}
  /\ UNCHANGED <<page, hid, device, listeners, dsc, nOps, wait, nextWait, task, wire, dongle>>

\* open() rejected: connect() rejects, this.device keeps the device
ConnectOpenFail ==
  /\ conn.pc = "open"
  /\ conn' = [pc |-> "idle", dev |-> NoDevice, prev |-> NoDevice]
  /\ uiError' = "open failed"
  /\ UNCHANGED <<page, hid, device, opened, listeners, dsc, nOps, uiConnected, dlisten,
                 wait, nextWait, task, log, wire, dongle>>

\* DisconnectCall whose client logs 'Disconnected' also when it holds no device
DisconnectCallLogsAlways ==
  /\ dsc.pc = "idle"
  /\ IF device # NoDevice
     THEN /\ nOps < MaxOps
          /\ nOps' = nOps + 1
          /\ dsc' = [pc |-> "close", dev |-> device]
          /\ UNCHANGED <<uiConnected, uiError, log>>
     ELSE /\ uiConnected' = FALSE
          /\ uiError' = ""
          /\ log' = Logged(log, LogEntry("info", 0))
          /\ UNCHANGED <<dsc, nOps>>
  /\ UNCHANGED <<page, hid, device, opened, listeners, conn, dlisten,
                 wait, nextWait, task, wire, dongle>>

\* provider disconnect -> client.disconnect(): with a device, up to
\* `await this.device.close()`; without one it returns and the provider resets its state
DisconnectCall ==
  /\ dsc.pc = "idle"
  /\ IF device # NoDevice
     THEN /\ nOps < MaxOps
          /\ nOps' = nOps + 1
          /\ dsc' = [pc |-> "close", dev |-> device]
          /\ UNCHANGED <<uiConnected, uiError>>
     ELSE /\ uiConnected' = FALSE
          /\ uiError' = ""
          /\ UNCHANGED <<dsc, nOps>>
  /\ UNCHANGED <<page, hid, device, opened, listeners, conn, dlisten,
                 wait, nextWait, task, log, wire, dongle>>

\* close() resolved: log('info', 'Disconnected'); this.device = null
DisconnectClosed ==
  /\ dsc.pc = "close"
  /\ opened' = [opened EXCEPT ![dsc.dev] = FALSE]
  /\ log' = Logged(log, LogEntry("info", 0))
  /\ device' = NoDevice
  /\ uiConnected' = FALSE
  /\ uiError' = ""
  /\ dsc' = [pc |-> "idle", dev |-> NoDevice]
  /\ wait' = [w \in WaitIds |->
                IF wait[w].st = "pending" /\ wait[w].dev = dsc.dev
                THEN [wait[w] EXCEPT !.disc = TRUE] ELSE wait[w]]
  /\ UNCHANGED <<page, hid, listeners, conn, nOps, dlisten, nextWait, task, wire, dongle>>

\* the peripheral is unplugged: the device is no longer open; the provider's
\* 'disconnect' listener runs when the backend delivers that event to the device
Unplug(d, notified) ==
  /\ opened[d]
  /\ opened' = [opened EXCEPT ![d] = FALSE]
  /\ uiConnected' = IF notified /\ d \in dlisten THEN FALSE ELSE uiConnected
  /\ uiError' = IF notified /\ d \in dlisten THEN "Device disconnected" ELSE uiError
  /\ wait' = [w \in WaitIds |->
                IF wait[w].st = "pending" /\ wait[w].dev = d
                THEN [wait[w] EXCEPT !.disc = TRUE] ELSE wait[w]]
  /\ UNCHANGED <<page, hid, device, listeners, conn, dsc, nOps, dlisten, nextWait, task, log, wire,
                 dongle>>

\* ------------------------------------------------------- inbound reports, time
\* history: what each pending wait's handler is handed by this dispatch
NoteHanded(s, hs, reportId, data) ==
  [s EXCEPT !.wait = [w \in WaitIds |->
     IF InSeq(w, hs) /\ s.wait[w].st = "pending"
     THEN IF s.wait[w].id # reportId THEN [s.wait[w] EXCEPT !.other = TRUE]
          ELSE IF s.wait[w].first = <<>> THEN [s.wait[w] EXCEPT !.first = data]
          ELSE s.wait[w]
     ELSE s.wait[w]]]

RxLogged ==
  LET rx == {e \in BagToSet(log) : e.type = "rx"}
      RECURSIVE Sum(_)
      Sum(S) == IF S = {} THEN 0
                ELSE LET e == CHOOSE x \in S : TRUE IN CopiesIn(e, log) + Sum(S \ {e})
  IN Sum(rx)

\* the open device d delivers the inbound report (reportId, data)
Deliver(d, reportId, data) ==
  /\ opened[d]
  /\ RxLogged < MaxRx
  /\ Commit(Dispatch(NoteHanded(Cur, listeners[d], reportId, data),
                     listeners[d], reportId, data))
  /\ UNCHANGED <<sessionVars, nOps, dongle>>

\* TickMs of time pass
Tick ==
  /\ \E w \in WaitIds : wait[w].armed /\ wait[w].left > 0
  /\ wait' = [w \in WaitIds |->
                IF wait[w].armed /\ wait[w].left > 0
                THEN [wait[w] EXCEPT !.left = @ - 1] ELSE wait[w]]
  /\ UNCHANGED <<sessionVars, nOps, listeners, nextWait, task, log, wire, dongle>>

\* the timer of wait w, armed and due, runs its callback
TimerFire(w) ==
  /\ wait[w].armed
  /\ wait[w].left = 0
  /\ Commit(TimerCallback(Cur, w))
  /\ UNCHANGED <<sessionVars, nOps, dongle>>

\* ------------------------------------------------------------- client calls
Started(s, t, op) == [s EXCEPT !.task[t] = [@ EXCEPT !.op = op]]

\* the callers' calls are numbered in the order they are made
CanStart(t) ==
  /\ nOps < MaxOps
  /\ task[t].op = "none"
  /\ \A u \in Tasks : u < t => task[u].op # "none"

\* a caller awaits receivePacket(expectedReportId) with the default deadline
ReceivePacketCall(t, expectedReportId) ==
  /\ CanStart(t)
  /\ Commit(ReceivePacket(Started(Cur, t, "receivePacket"), t, expectedReportId,
                          DefaultTimeoutMs))
  /\ nOps' = nOps + 1
  /\ UNCHANGED <<sessionVars, dongle>>

\* a caller awaits sendReport(reportId, data)
SendReportCall(t, reportId, data) ==
  /\ CanStart(t)
  /\ Commit(SendReport(Started(Cur, t, "sendReport"), t, reportId, data))
  /\ nOps' = nOps + 1
  /\ UNCHANGED <<sessionVars, dongle>>

\* a caller awaits sendFeatureReport(reportId, data)
SendFeatureReportCall(t, reportId, data) ==
  /\ CanStart(t)
  /\ Commit(SendFeatureReport(Started(Cur, t, "sendFeatureReport"), t, reportId, data))
  /\ nOps' = nOps + 1
  /\ UNCHANGED <<sessionVars, dongle>>

\* handleCheckCounter (the effect on connect, the Refresh Counter button):
\* client.getCounter() up to the await in sendReport of the zero-filled request
HandleCheckCounter(t) ==
  /\ CanStart(t)
  /\ uiConnected
  /\ Commit(SendReport(Started(Cur, t, "getCounter"), t, GET_COUNTER_OUT, Zeros(63)))
  /\ nOps' = nOps + 1
  /\ UNCHANGED <<sessionVars, dongle>>

\* a caller of the provider's client (handleCheckCounter of the auto-license page,
\* the license flow) awaits HIDClient.getCounter(), up to the await in sendReport
HIDClientGetCounter(t) ==
  /\ CanStart(t)
  /\ Commit(SendReport(Started(Cur, t, "HIDClient.getCounter"), t, GET_COUNTER_OUT, Zeros(63)))
  /\ nOps' = nOps + 1
  /\ UNCHANGED <<sessionVars, dongle>>

\* a caller awaits TargetDeviceClient.readUUID(), up to the await in sendReport of
\* the request with empty data
ReadUUIDCall(t) ==
  /\ CanStart(t)
  /\ Commit(SendReport([Started(Cur, t, "readUUID")
                         EXCEPT !.log = Logged(@, LogEntry("info", GET_UUID_REQUEST))],
                       t, GET_UUID_REQUEST, <<>>))
  /\ nOps' = nOps + 1
  /\ UNCHANGED <<sessionVars, dongle>>

\* a caller awaits the multi-packet readUUID(), up to the await in sendReport of
\* the zero-filled request
ReadUUIDMultiCall(t) ==
  /\ CanStart(t)
  /\ Commit(SendReport([Started(Cur, t, "readUUIDMulti")
                         EXCEPT !.log = Logged(@, LogEntry("info", GET_UUID_REQUEST)),
                                !.task[t].buf = Zeros(UUID_LENGTH)],
                       t, GET_UUID_REQUEST, Zeros(63)))
  /\ nOps' = nOps + 1
  /\ UNCHANGED <<sessionVars, dongle>>

\* WriteLicenseCall without the test of license.length
WriteLicenseUnchecked(t, license) ==
  /\ CanStart(t)
  /\ Commit(SendReport([Started(Cur, t, "writeLicense")
                         EXCEPT !.task[t].arg = license,
                                !.log = Logged(@, LogEntry("info", STORE_LICENSE))],
                       t, STORE_LICENSE, license))
  /\ nOps' = nOps + 1
  /\ UNCHANGED <<sessionVars, dongle>>

\* a caller awaits TargetDeviceClient.writeLicense(license), up to the await in
\* sendReport: the whole license is the data of one report
WriteLicenseCall(t, license) ==
  /\ CanStart(t)
  /\ LET s == [Started(Cur, t, "writeLicense") EXCEPT !.task[t].arg = license]
     IN IF Len(license) # LICENSE_LENGTH
        THEN Commit([s EXCEPT !.task[t] = [@ EXCEPT !.pc = "failed",
                                                    !.err = LicenseLengthError]])
        ELSE Commit(SendReport([s EXCEPT !.log = Logged(@, LogEntry("info", STORE_LICENSE))],
                               t, STORE_LICENSE, license))
  /\ nOps' = nOps + 1
  /\ UNCHANGED <<sessionVars, dongle>>

\* chunked writeLicense: license.slice(offset, offset + 63) set at 0 of a zero-filled
\* Uint8Array(63)
PaddedChunk(license, offset) ==
  [i \in 1..LICENSE_CHUNK_SIZE |->
     IF offset + i <= Len(license) THEN license[offset + i] ELSE 0]

\* chunked writeLicense, one round of its loop up to the await in sendReport
WriteChunk(s, t) ==
  LET offset == s.task[t].offset
      chunkLength == Min(LICENSE_CHUNK_SIZE, Len(s.task[t].arg) - offset)
  IN SendReport([s EXCEPT !.task[t].offset = offset + chunkLength],
                t, STORE_LICENSE, PaddedChunk(s.task[t].arg, offset))

\* a caller awaits the chunked writeLicense(license), up to the first await
WriteLicenseChunkedCall(t, license) ==
  /\ CanStart(t)
  /\ LET s == [Started(Cur, t, "writeLicenseChunked") EXCEPT !.task[t].arg = license]
     IN IF Len(license) # LICENSE_LENGTH
        THEN Commit([s EXCEPT !.task[t] = [@ EXCEPT !.pc = "failed",
                                                    !.err = LicenseLengthError]])
        ELSE Commit(WriteChunk([s EXCEPT !.log = Logged(@, LogEntry("info", STORE_LICENSE))], t))
  /\ nOps' = nOps + 1
  /\ UNCHANGED <<sessionVars, dongle>>

\* chunked writeLicense: the 20 ms timer fired, the loop tests offset and goes on
PacingElapsed(t) ==
  /\ task[t].pc = "pacing"
  /\ IF task[t].offset < Len(task[t].arg)
     THEN Commit(WriteChunk(Cur, t))
     ELSE Commit([Cur EXCEPT !.log = Logged(@, LogEntry("success", STORE_LICENSE)),
                             !.task[t] = [@ EXCEPT !.pc = "ok"]])
  /\ UNCHANGED <<sessionVars, nOps, dongle>>

\* a caller awaits MockDeviceClient.writeLicense(license), up to its simulated delay
MockWriteLicenseCall(t, license) ==
  /\ CanStart(t)
  /\ LET s == [Started(Cur, t, "MockDeviceClient.writeLicense") EXCEPT !.task[t].arg = license]
     IN IF Len(license) # LICENSE_LENGTH
        THEN Commit([s EXCEPT !.task[t] = [@ EXCEPT !.pc = "failed",
                                                    !.err = LicenseLengthError]])
        ELSE Commit([s EXCEPT !.log = Logged(Logged(@, LogEntry("info", STORE_LICENSE)),
                                             LogEntry("tx", STORE_LICENSE)),
                              !.task[t] = [@ EXCEPT !.pc = "simulating"]])
  /\ nOps' = nOps + 1
  /\ UNCHANGED <<sessionVars, dongle>>

\* MockDeviceClient.writeLicense: the 500 ms timer fired
MockWriteDone(t) ==
  /\ task[t].pc = "simulating"
  /\ Commit([Cur EXCEPT !.log = Logged(@, LogEntry("success", STORE_LICENSE)),
                         !.task[t] = [@ EXCEPT !.pc = "ok"]])
  /\ UNCHANGED <<sessionVars, nOps, dongle>>

\* SendChunk without the await: the report of the chunk after this one is handed to
\* the transport in the same round
SendChunkAhead(s, t) ==
  LET chunks == Chunks(s.task[t].arg)
      s1 == SendReport(s, t, GET_LICENSE_OUT, LengthPrefixedReport(chunks[s.task[t].i + 1]))
  IN IF s1.task[t].pc = "sending" /\ s.task[t].i + 2 <= Len(chunks)
     THEN SendReport(s1, t, GET_LICENSE_OUT, LengthPrefixedReport(chunks[s.task[t].i + 2]))
     ELSE s1

\* sendFragmentedData, one round of its loop: build the report of chunk i and call
\* sendReport(GET_LICENSE_OUT, reportData)
SendChunk(s, t) ==
  SendReport(s, t, GET_LICENSE_OUT,
             LengthPrefixedReport(Chunks(s.task[t].arg)[s.task[t].i + 1]))

\* handleStartProcess runs one license process at a time (its button is disabled
\* while isProcessing): no sendFragmentedData / receiveFragmentedData call is in flight
ProcessIdle ==
  \A u \in Tasks :
    task[u].op \in {"sendFragmentedData", "receiveFragmentedData"}
      => task[u].pc \in {"ok", "failed"}

\* SendFragmentedDataCall without the test of payload.length
SendFragmentedDataUnchecked(t, payload) ==
  /\ CanStart(t)
  /\ ProcessIdle
  /\ Commit(SendChunk([Started(Cur, t, "sendFragmentedData") EXCEPT !.task[t].arg = payload], t))
  /\ nOps' = nOps + 1
  /\ UNCHANGED <<sessionVars, dongle>>

\* handleStartProcess awaits sendFragmentedData(payload): the length test, then the
\* first round
SendFragmentedDataCall(t, payload) ==
  /\ CanStart(t)
  /\ ProcessIdle
  /\ LET s == [Started(Cur, t, "sendFragmentedData") EXCEPT !.task[t].arg = payload]
     IN IF Len(payload) # UUID_LENGTH
        THEN Commit([s EXCEPT !.task[t] = [@ EXCEPT !.pc = "failed",
                                                    !.err = "UUID must be 128 bytes."]])
        ELSE Commit(SendChunk(s, t))
  /\ nOps' = nOps + 1
  /\ UNCHANGED <<sessionVars, dongle>>

\* handleStartProcess awaits receiveFragmentedData(): fullBuffer = new Uint8Array(256),
\* offset = 0, then the first receivePacket(GET_LICENSE_IN, 3000)
ReceiveFragmentedDataCall(t) ==
  /\ CanStart(t)
  /\ ProcessIdle
  /\ LET s == [Started(Cur, t, "receiveFragmentedData") EXCEPT
                 !.task[t].buf = Zeros(LICENSE_LENGTH)]
     IN Commit(ReceivePacket(s, t, GET_LICENSE_IN, LicenseTimeoutMs))
  /\ nOps' = nOps + 1
  /\ UNCHANGED <<sessionVars, dongle>>

\* device.sendReport / sendFeatureReport resolved: sendReport returns; getCounter
\* goes on to receivePacket(GET_COUNTER_IN, 2000), sendFragmentedData to its next
\* chunk, if any
SendDone(t) ==
  /\ task[t].pc = "sending"
  /\ CASE task[t].op \in CounterOps ->
            Commit(ReceivePacket(Cur, t, GET_COUNTER_IN, CounterTimeoutMs))
       [] task[t].op = "sendFragmentedData" ->
            LET s == [Cur EXCEPT !.task[t].i = @ + 1]
            IN IF s.task[t].i < Len(Chunks(s.task[t].arg))
               THEN Commit(SendChunk(s, t))
               ELSE Commit([s EXCEPT !.task[t] = [@ EXCEPT !.pc = "ok"]])
       [] task[t].op \in {"readUUID", "readUUIDMulti"} ->
            Commit(ReceivePacket([Cur EXCEPT !.log = Logged(@, LogEntry("info", GET_UUID_RESPONSE))],
                                 t, GET_UUID_RESPONSE, UuidTimeoutMs))
       [] task[t].op = "writeLicenseChunked" ->
            \* await new Promise(r => setTimeout(r, 20))
            Commit([Cur EXCEPT !.task[t] = [@ EXCEPT !.pc = "pacing"]])
       [] task[t].op = "writeLicense" ->
            Commit([Cur EXCEPT !.log = Logged(@, LogEntry("success", STORE_LICENSE)),
                               !.task[t] = [@ EXCEPT !.pc = "ok"]])
       [] OTHER -> Commit([Cur EXCEPT !.task[t] = [@ EXCEPT !.pc = "ok"]])
  /\ UNCHANGED <<sessionVars, nOps, dongle>>

\* device.sendReport / sendFeatureReport rejected: the error reaches the caller
SendFail(t) ==
  /\ task[t].pc = "sending"
  /\ Commit([Cur EXCEPT !.task[t] = [@ EXCEPT !.pc = "failed", !.err = "transport"]])
  /\ UNCHANGED <<sessionVars, nOps, dongle>>

AwaitedIds == {GET_LICENSE_IN}
ManualIds == {GET_COUNTER_OUT}
ManualData == {<<>>}

Next ==
  \/ \E d \in Devices : ConnectPick(d)
  \/ ConnectOpened
  \/ ConnectOpenFail
  \/ DisconnectCall
  \/ DisconnectClosed
  \/ \E d \in Devices, notified \in BOOLEAN : Unplug(d, notified)
  \/ \E d \in Devices, reportId \in InboundIds, data \in Payloads : Deliver(d, reportId, data)
  \/ Tick
  \/ \E w \in WaitIds : TimerFire(w)
  \/ \E t \in Tasks, id \in AwaitedIds : ReceivePacketCall(t, id)
  \/ \E t \in Tasks, id \in ManualIds, data \in ManualData : SendReportCall(t, id, data)
  \/ \E t \in Tasks, id \in ManualIds, data \in ManualData : SendFeatureReportCall(t, id, data)
  \/ \E t \in Tasks : HandleCheckCounter(t)
  \/ \E t \in Tasks : SendDone(t)
  \/ \E t \in Tasks : SendFail(t)

Spec == Init /\ [][Next]_vars

\* ------------------------------------------------------- the license exchange
\* the identifiers device d was sent in full: three GET_LICENSE_OUT reports each
Requests(d) ==
  Len(SelectSeq(wire, LAMBDA r : r.dev = d /\ r.kind = "output" /\ r.id = GET_LICENSE_OUT))
    \div Len(Chunks(Uuid(0)))

\* the dongle on the open device d starts to answer an identifier it was sent with
\* the reports of resp
DongleRespond(d, resp) ==
  /\ opened[d]
  /\ dongle.queue = <<>>
  /\ dongle.answered[d] < Requests(d)
  /\ dongle' = [answered |-> [dongle.answered EXCEPT ![d] = @ + 1], dev |-> d, queue |-> resp]
  /\ UNCHANGED <<sessionVars, nOps, wait, listeners, nextWait, task, log, wire>>

\* the dongle's next report arrives as report GET_LICENSE_IN of its device
DongleDeliver ==
  /\ dongle.queue # <<>>
  /\ opened[dongle.dev]
  /\ LET hs == listeners[dongle.dev]
         data == Head(dongle.queue)
     IN Commit(Dispatch(NoteHanded(Cur, hs, GET_LICENSE_IN, data), hs, GET_LICENSE_IN, data))
  /\ dongle' = [dongle EXCEPT !.queue = Tail(@)]
  /\ UNCHANGED <<sessionVars, nOps>>

\* ------------------------------------------------------ the auto-license page
ProcessOrder == <<"readUUID", "getCounter", "sendFragmentedData",
                  "receiveFragmentedData", "writeLicense">>

\* the function awaited by the page on task t has returned or thrown
Returned(t) == t # 0 /\ task[t].pc \in {"ok", "failed"}

\* the provider renders again after its effect created the client: the page's
\* `client` is clientRef.current
ClientProvided ==
  /\ ~page.client
  /\ page' = [page EXCEPT !.client = TRUE]
  /\ UNCHANGED <<clientVars, nOps, wait, listeners, nextWait, task, log, wire, dongle>>

\* handleConnectDevice, once mock.connect() has resolved: setMockDevice(mock); uuid is
\* the mock's mockUUID
HandleConnectDevice(uuid) ==
  /\ page.mock = <<>>
  /\ page' = [page EXCEPT !.mock = uuid]
  /\ UNCHANGED <<clientVars, nOps, wait, listeners, nextWait, task, log, wire, dongle>>

\* handleCheckCounter of the page, up to the await in client.getCounter(); a
\* sendReport that throws is caught by the handler
PageCheckCounter(t) ==
  /\ CanStart(t)
  /\ page.client /\ uiConnected /\ page.chk = 0
  /\ LET s == SendReport(Started(Cur, t, "HIDClient.getCounter"), t, GET_COUNTER_OUT, Zeros(63))
     IN /\ Commit(s)
        /\ page' = [page EXCEPT !.chk = IF s.task[t].pc = "failed" THEN 0 ELSE t]
  /\ nOps' = nOps + 1
  /\ UNCHANGED <<clientVars, dongle>>

\* handleCheckCounter after its await: setCounter(counterValue) unless it is null
PageCounterChecked ==
  /\ Returned(page.chk)
  /\ LET r == task[page.chk]
     IN page' = [page EXCEPT !.chk = 0,
                             !.counter = IF r.pc = "ok" /\ r.res # Null THEN r.res ELSE @]
  /\ UNCHANGED <<clientVars, nOps, wait, listeners, nextWait, task, log, wire, dongle>>

\* handleStartProcess caught an error: setCurrentStep('error')
ProcessFailed(pg) == [pg EXCEPT !.step = "error", !.pc = "idle"]

\* HandleStartProcess without the test of the stored counter
HandleStartProcessUnchecked(t) ==
  /\ CanStart(t)
  /\ page.pc = "idle"
  /\ nOps' = nOps + 1
  /\ IF ~page.client \/ page.mock = <<>>
     THEN UNCHANGED <<page, task>>
     ELSE /\ page' = [page EXCEPT !.step = "get-uuid", !.pc = "readUUID", !.t = t,
                                  !.uuid = <<>>, !.recheck = Null, !.calls = <<"readUUID">>,
                                  !.done = 0, !.returned = <<>>, !.written = <<>>]
          /\ task' = [task EXCEPT ![t] = [FreshTask EXCEPT !.op = "MockDeviceClient.readUUID",
                                                           !.pc = "reading"]]
  /\ UNCHANGED <<clientVars, wait, listeners, nextWait, log, wire, dongle>>

\* handleStartProcess up to its first await: the two early returns, then
\* setCurrentStep('get-uuid') and mockDevice.readUUID() up to its simulated delay
HandleStartProcess(t) ==
  /\ CanStart(t)
  /\ page.pc = "idle"
  /\ nOps' = nOps + 1
  /\ IF ~page.client \/ page.mock = <<>>
     THEN UNCHANGED <<page, task>>
     ELSE IF page.counter = Null \/ page.counter[1] <= 0
     THEN UNCHANGED <<page, task>>
     ELSE /\ page' = [page EXCEPT !.step = "get-uuid", !.pc = "readUUID", !.t = t,
                                  !.uuid = <<>>, !.recheck = Null, !.calls = <<"readUUID">>,
                                  !.done = 0, !.returned = <<>>, !.written = <<>>]
          /\ task' = [task EXCEPT ![t] = [FreshTask EXCEPT !.op = "MockDeviceClient.readUUID",
                                                           !.pc = "reading"]]
  /\ UNCHANGED <<clientVars, wait, listeners, nextWait, log, wire, dongle>>

\* readUUID of the mock returned its mockUUID: setUuid, setCurrentStep('get-counter'),
\* then client.getCounter() up to the await in sendReport
ProcessUuidRead ==
  /\ page.pc = "readUUID"
  /\ LET t == page.t
         s == SendReport([Cur EXCEPT !.task[t] = [FreshTask EXCEPT !.op = "HIDClient.getCounter"]],
                         t, GET_COUNTER_OUT, Zeros(63))
         pg == [page EXCEPT !.uuid = page.mock, !.done = 1, !.step = "get-counter",
                            !.calls = Append(@, "getCounter"), !.pc = "getCounter"]
     IN /\ Commit(s)
        /\ page' = IF s.task[t].pc = "failed" THEN ProcessFailed(pg) ELSE pg
  /\ UNCHANGED <<clientVars, nOps, dongle>>

\* getCounter returned or threw: the test of newCounter, setCounter,
\* setCurrentStep('generate-license'), then sendFragmentedData(deviceUuid) up to the
\* await of its first chunk
ProcessCounterRead ==
  /\ page.pc = "getCounter"
  /\ Returned(page.t)
  /\ LET t == page.t
         newCounter == task[t].res
     IN IF task[t].pc = "failed"
        THEN page' = ProcessFailed(page) /\ Commit(Cur)
        ELSE IF newCounter = Null \/ newCounter[1] <= 0
        THEN page' = ProcessFailed([page EXCEPT !.recheck = newCounter]) /\ Commit(Cur)
        ELSE LET s0 == [Cur EXCEPT !.task[t] = [FreshTask EXCEPT !.op = "sendFragmentedData",
                                                                 !.arg = page.uuid]]
                 s == IF Len(page.uuid) # UUID_LENGTH
                      THEN [s0 EXCEPT !.task[t] = [@ EXCEPT !.pc = "failed",
                                                            !.err = "UUID must be 128 bytes."]]
                      ELSE SendChunk(s0, t)
                 pg == [page EXCEPT !.recheck = newCounter, !.counter = newCounter,
                                    !.done = 2, !.step = "generate-license",
                                    !.calls = Append(@, "sendFragmentedData"), !.pc = "send"]
             IN /\ Commit(s)
                /\ page' = IF s.task[t].pc = "failed" THEN ProcessFailed(pg) ELSE pg
  /\ UNCHANGED <<clientVars, nOps, dongle>>

\* sendFragmentedData returned or threw; then receiveFragmentedData() up to its
\* first receivePacket
ProcessSent ==
  /\ page.pc = "send"
  /\ Returned(page.t)
  /\ LET t == page.t
     IN IF task[t].pc = "failed"
        THEN page' = ProcessFailed(page) /\ Commit(Cur)
        ELSE LET s0 == [Cur EXCEPT !.task[t] = [FreshTask EXCEPT !.op = "receiveFragmentedData",
                                                                 !.buf = Zeros(LICENSE_LENGTH)]]
                 s == ReceivePacket(s0, t, GET_LICENSE_IN, LicenseTimeoutMs)
                 pg == [page EXCEPT !.done = 3, !.calls = Append(@, "receiveFragmentedData"),
                                    !.pc = "receive"]
             IN /\ Commit(s)
                /\ page' = IF s.task[t].pc = "failed" THEN ProcessFailed(pg) ELSE pg
  /\ UNCHANGED <<clientVars, nOps, dongle>>

\* ProcessReceived that goes on to writeLicense with the buffer filled so far when
\* receiveFragmentedData threw
ProcessReceivedUnchecked ==
  /\ page.pc = "receive"
  /\ Returned(page.t)
  /\ LET t == page.t
         generatedLicense == IF task[t].pc = "failed" THEN task[t].buf ELSE task[t].res
         pg == [page EXCEPT !.returned = generatedLicense, !.written = generatedLicense,
                            !.done = 4, !.step = "write-license",
                            !.calls = Append(@, "writeLicense"), !.pc = "write"]
     IN /\ page' = pg
        /\ Commit([Cur EXCEPT !.task[t] = [FreshTask EXCEPT
                                             !.op = "MockDeviceClient.writeLicense",
                                             !.arg = generatedLicense, !.pc = "simulating"]])
  /\ UNCHANGED <<clientVars, nOps, dongle>>

\* receiveFragmentedData returned or threw: setLicense, setCurrentStep('write-license'),
\* then mockDevice.writeLicense(generatedLicense) up to its simulated delay
ProcessReceived ==
  /\ page.pc = "receive"
  /\ Returned(page.t)
  /\ LET t == page.t
         generatedLicense == task[t].res
         pg == [page EXCEPT !.returned = generatedLicense, !.written = generatedLicense,
                            !.done = 4, !.step = "write-license",
                            !.calls = Append(@, "writeLicense"), !.pc = "write"]
     IN IF task[t].pc = "failed"
        THEN page' = ProcessFailed(page) /\ Commit(Cur)
        ELSE IF Len(generatedLicense) # LICENSE_LENGTH
        THEN /\ page' = ProcessFailed(pg)
             /\ Commit([Cur EXCEPT !.task[t] = [FreshTask EXCEPT
                                                  !.op = "MockDeviceClient.writeLicense",
                                                  !.arg = generatedLicense, !.pc = "failed",
                                                  !.err = LicenseLengthError]])
        ELSE /\ page' = pg
             /\ Commit([Cur EXCEPT !.task[t] = [FreshTask EXCEPT
                                                  !.op = "MockDeviceClient.writeLicense",
                                                  !.arg = generatedLicense, !.pc = "simulating"]])
  /\ UNCHANGED <<clientVars, nOps, dongle>>

\* writeLicense of the mock resolved: setCurrentStep('complete')
ProcessWritten ==
  /\ page.pc = "write"
  /\ page' = [page EXCEPT !.done = 5, !.step = "complete", !.pc = "idle"]
  /\ Commit([Cur EXCEPT !.task[page.t] = [@ EXCEPT !.pc = "ok"]])
  /\ UNCHANGED <<clientVars, nOps, dongle>>

\* a function the page awaits has settled and the page's continuation has not run
\* yet: it runs before any other event is handled
PageDue ==
  \/ Returned(page.chk)
  \/ page.pc \in {"getCounter", "send", "receive"} /\ Returned(page.t)

FrameNext ==
  \/ \E d \in Devices : ConnectPick(d)
  \/ ConnectOpened
  \/ \E d \in Devices : Unplug(d, TRUE)
  \/ \E t \in Tasks, payload \in Uuids \cup BadUuids : SendFragmentedDataCall(t, payload)
  \/ \E t \in Tasks : ReceiveFragmentedDataCall(t)
  \/ \E t \in Tasks : SendDone(t)
  \/ \E d \in Devices, resp \in Responses : DongleRespond(d, resp)
  \/ DongleDeliver
  \/ Tick
  \/ \E w \in WaitIds : TimerFire(w)

SpecFrame == Init /\ [][FrameNext]_vars

\* ------------------------------------------------------------ the counter query
\* counter responses: the first two bytes are the counter, the rest varies
CounterPayloads ==
  {<<5, 0, 0>>, <<5, 0, 201>>, <<255, 0, 7>>, <<0, 1, 255>>, <<255, 255, 1>>}

CounterNext ==
  \/ \E d \in Devices : ConnectPick(d)
  \/ ConnectOpened
  \/ \E d \in Devices : Unplug(d, TRUE)
  \/ \E t \in Tasks : HandleCheckCounter(t)
  \/ \E t \in Tasks : HIDClientGetCounter(t)
  \/ \E t \in Tasks : SendDone(t)
  \/ \E t \in Tasks : SendFail(t)
  \/ \E d \in Devices, data \in CounterPayloads : Deliver(d, GET_COUNTER_IN, data)
  \/ Tick
  \/ \E w \in WaitIds : TimerFire(w)

SpecCounter == Init /\ [][CounterNext]_vars

\* ------------------------------------------------------------ the target device
\* what the target answers on GET_UUID_RESPONSE: an identifier, one followed by
\* padding, half of one
UuidResponses == {Uuid(0), Uuid(1) \o <<0, 0>>, SubSeq(Uuid(1), 1, 64)}
BadLicenses == {SubSeq(License(0), 1, 255), License(0) \o <<0>>}
\* the debug console's Send Report form: any identifier, data of any length
TargetManualIds == {STORE_LICENSE}
TargetManualData == {<<>>, Zeros(65)}

TargetNext ==
  \/ \E d \in Devices : ConnectPick(d)
  \/ ConnectOpened
  \/ \E d \in Devices : Unplug(d, TRUE)
  \/ \E t \in Tasks : ReadUUIDCall(t)
  \/ \E t \in Tasks, license \in Licenses \cup BadLicenses : WriteLicenseCall(t, license)
  \/ \E t \in Tasks, id \in TargetManualIds, data \in TargetManualData :
       SendReportCall(t, id, data)
  \/ \E t \in Tasks : SendDone(t)
  \/ \E t \in Tasks : SendFail(t)
  \/ \E d \in Devices, data \in UuidResponses : Deliver(d, GET_UUID_RESPONSE, data)
  \/ Tick
  \/ \E w \in WaitIds : TimerFire(w)

SpecTarget == Init /\ [][TargetNext]_vars

\* the target answering the multi-packet readUUID: half an identifier, a 100-byte
\* report, a whole identifier followed by padding
UuidPackets == {SubSeq(Uuid(1), 1, 64), SubSeq(Uuid(0), 1, 100), Uuid(0) \o <<0, 0>>}

TargetMultiNext ==
  \/ \E d \in Devices : ConnectPick(d)
  \/ ConnectOpened
  \/ \E d \in Devices : Unplug(d, TRUE)
  \/ \E t \in Tasks : ReadUUIDMultiCall(t)
  \/ \E t \in Tasks : SendDone(t)
  \/ \E t \in Tasks : SendFail(t)
  \/ \E d \in Devices, data \in UuidPackets : Deliver(d, GET_UUID_RESPONSE, data)
  \/ Tick
  \/ \E w \in WaitIds : TimerFire(w)

SpecTargetMulti == Init /\ [][TargetMultiNext]_vars

\* the target answering the multi-packet readUUID with reports that carry no data
\* byte, half an identifier, or nothing at all
UuidLoopPackets == {<<>>, SubSeq(Uuid(1), 1, 64)}

UuidLoopNext ==
  \/ \E d \in Devices : ConnectPick(d)
  \/ ConnectOpened
  \/ \E d \in Devices : Unplug(d, TRUE)
  \/ \E t \in Tasks : ReadUUIDMultiCall(t)
  \/ \E t \in Tasks : SendDone(t)
  \/ \E d \in Devices, data \in UuidLoopPackets : Deliver(d, GET_UUID_RESPONSE, data)
  \/ Tick
  \/ \E w \in WaitIds : TimerFire(w)

SpecUuidLoop == Init /\ [][UuidLoopNext]_vars

\* handleStartProcess writes one license at a time (its button is disabled while
\* isProcessing): no writeLicense call is in flight
WriteIdle ==
  \A u \in Tasks :
    task[u].op \in {"writeLicense", "writeLicenseChunked", "MockDeviceClient.writeLicense"}
      => task[u].pc \in {"ok", "failed"}

\* -------------------------------------------------------- connect / disconnect
ConnectNext ==
  \/ ConnectUnsupported
  \/ ConnectNoDevice
  \/ \E d \in Devices : ConnectPick(d)
  \/ ConnectOpened
  \/ ConnectOpenFail
  \/ DisconnectCall
  \/ DisconnectClosed
  \/ \E d \in Devices, notified \in BOOLEAN : Unplug(d, notified)
  \/ \E t \in Tasks, id \in ManualIds, data \in ManualData : SendReportCall(t, id, data)
  \/ \E t \in Tasks : SendDone(t)

SpecConnect == Init /\ [][ConnectNext]_vars

\* ---------------------------------------------------- waits under a running clock
LiveNext ==
  \/ \E d \in Devices : ConnectPick(d)
  \/ ConnectOpened
  \/ DisconnectCall
  \/ DisconnectClosed
  \/ \E d \in Devices, notified \in BOOLEAN : Unplug(d, notified)
  \/ \E d \in Devices, reportId \in InboundIds, data \in Payloads : Deliver(d, reportId, data)
  \/ \E t \in Tasks, id \in AwaitedIds : ReceivePacketCall(t, id)
  \/ \E t \in Tasks : HandleCheckCounter(t)
  \/ \E t \in Tasks : SendDone(t)
  \/ Tick
  \/ \E w \in WaitIds : TimerFire(w)

\* setTimeout: time passes and a timer that is due runs its callback
SpecLive ==
  /\ Init /\ [][LiveNext]_vars
  /\ WF_vars(Tick)
  /\ \A w \in WaitIds : WF_vars(TimerFire(w))

\* the license written to the target: single report, chunked, mock
LicenseNext ==
  \/ \E d \in Devices : ConnectPick(d)
  \/ ConnectOpened
  \/ \E d \in Devices : Unplug(d, TRUE)
  \/ \E t \in Tasks, license \in Licenses \cup BadLicenses :
       WriteIdle /\ WriteLicenseCall(t, license)
  \/ \E t \in Tasks, license \in Licenses \cup BadLicenses :
       WriteIdle /\ WriteLicenseChunkedCall(t, license)
  \/ \E t \in Tasks, license \in Licenses \cup BadLicenses :
       WriteIdle /\ MockWriteLicenseCall(t, license)
  \/ \E t \in Tasks : SendDone(t)
  \/ \E t \in Tasks : SendFail(t)
  \/ \E t \in Tasks : PacingElapsed(t)
  \/ \E t \in Tasks : MockWriteDone(t)

SpecLicense == Init /\ [][LicenseNext]_vars

\* sendFragmentedData on a transport whose sends may fail
SendNext ==
  \/ \E d \in Devices : ConnectPick(d)
  \/ ConnectOpened
  \/ \E d \in Devices : Unplug(d, TRUE)
  \/ \E t \in Tasks, payload \in Uuids : SendFragmentedDataCall(t, payload)
  \/ \E t \in Tasks : SendDone(t)
  \/ \E t \in Tasks : SendFail(t)

SpecSend == Init /\ [][SendNext]_vars

\* the automated license process of the auto-license page; the dongle's counter is
\* 5 or 0, and it answers an identifier with the license License(1).  The page makes
\* its calls one at a time: a counter check or a connect only while no run is in
\* flight, a run only while no counter check is in flight
ProcessCounters == {<<5, 0, 0>>, <<0, 0, 0>>}
ProcessResponse == SplitLicense(License(1), <<62, 62, 62, 62, 8>>)

ProcessNext ==
  \/ ClientProvided
  \/ HandleConnectDevice(Uuid(1))
  \/ PageCounterChecked
  \/ ProcessCounterRead
  \/ ProcessSent
  \/ ProcessReceived
  \/ ~PageDue /\ page.pc = "idle" /\ \E t \in Tasks : PageCheckCounter(t)
  \/ ~PageDue /\ page.chk = 0 /\ \E t \in Tasks : HandleStartProcess(t)
  \/ ~PageDue /\ ProcessUuidRead
  \/ ~PageDue /\ ProcessWritten
  \/ ~PageDue /\ page.pc = "idle" /\ \E d \in Devices : ConnectPick(d)
  \/ ~PageDue /\ ConnectOpened
  \/ ~PageDue /\ \E d \in Devices : Unplug(d, TRUE)
  \/ ~PageDue /\ \E t \in Tasks : SendDone(t)
  \/ ~PageDue /\ \E t \in Tasks : SendFail(t)
  \/ ~PageDue /\ \E d \in Devices, data \in ProcessCounters : Deliver(d, GET_COUNTER_IN, data)
  \/ ~PageDue /\ \E d \in Devices : DongleRespond(d, ProcessResponse)
  \/ ~PageDue /\ DongleDeliver
  \/ ~PageDue /\ Tick
  \/ ~PageDue /\ \E w \in WaitIds : TimerFire(w)

SpecProcess == Init /\ [][ProcessNext]_vars

\* the license exchange with a dongle that may also answer with faulty reports
FaultyNext ==
  \/ \E d \in Devices : ConnectPick(d)
  \/ ConnectOpened
  \/ \E d \in Devices : Unplug(d, TRUE)
  \/ \E t \in Tasks, payload \in Uuids : SendFragmentedDataCall(t, payload)
  \/ \E t \in Tasks : ReceiveFragmentedDataCall(t)
  \/ \E t \in Tasks : SendDone(t)
  \/ \E d \in Devices, resp \in Responses \cup FaultyResponses : DongleRespond(d, resp)
  \/ DongleDeliver
  \/ Tick
  \/ \E w \in WaitIds : TimerFire(w)

SpecFaulty == Init /\ [][FaultyNext]_vars

\* ======================================================================
\* Properties
\* ======================================================================
Settled(w) == wait[w].st \in {"resolved", "rejected"}
TimeoutError == "Timeout waiting for packet"
NotConnectedErrors == {"Device not connected", "Device disconnected"}
TxLogged(l) == CopiesIn(LogEntry("tx", GET_COUNTER_OUT), l) + CopiesIn(LogEntry("tx", GET_LICENSE_OUT), l)

\* ---- C1
C1_FirstMatch ==
  \A w \in WaitIds :
    /\ wait[w].st = "resolved" => wait[w].first # <<>> /\ wait[w].result = wait[w].first
    /\ wait[w].st = "pending" => wait[w].first = <<>>
    /\ wait[w].st = "rejected" => wait[w].first = <<>>

C1_NonMatchingIgnored ==
  \A d \in Devices, reportId \in InboundIds, data \in Payloads :
    Deliver(d, reportId, data) =>
      \A w \in WaitIds :
        (wait[w].st = "pending" /\ InSeq(w, listeners[d]) /\ wait[w].id # reportId) =>
          /\ wait'[w].st = "pending"
          /\ InSeq(w, listeners'[d])
          /\ wait'[w].armed = wait[w].armed
          /\ wait'[w].left = wait[w].left
          /\ task'[wait[w].owner] = task[wait[w].owner]

\* C1: receivePacket resolves with the payload of the first inbound report whose
\* reportId equals the expected one; a report with another reportId that arrives
\* before it neither settles the wait, nor deregisters its listener, nor touches its
\* deadline.
C1_ResolvesWithFirstMatch == [](C1_FirstMatch) /\ [][C1_NonMatchingIgnored]_vars

C1_Witness ==
  \E w \in WaitIds : wait[w].st = "resolved" /\ wait[w].other

\* ---- C2
C2_TimeoutOnlyWithoutMatch ==
  \A w \in WaitIds :
    (wait[w].st = "rejected") => (wait[w].err = TimeoutError /\ wait[w].first = <<>>)

\* a report for reportId on d that no pending wait expects and that a timed-out wait
\* on d expected
Late(d, reportId) ==
  /\ \E w \in WaitIds : /\ wait[w].st = "rejected" /\ wait[w].err = TimeoutError
                        /\ wait[w].id = reportId /\ wait[w].dev = d
  /\ \A w \in WaitIds : ~(wait[w].st = "pending" /\ wait[w].id = reportId /\ wait[w].dev = d)
  /\ \A w \in WaitIds : ~(wait[w].st = "resolved" /\ wait[w].id = reportId /\ wait[w].dev = d)

C2_LateReportNoEffect ==
  \A d \in Devices, reportId \in InboundIds, data \in Payloads :
    (Late(d, reportId) /\ Deliver(d, reportId, data)) =>
      UNCHANGED <<wait, task, log, listeners, device, opened, wire>>

\* C2: without a matching report before the deadline receivePacket fails with a
\* Timeout error, and a matching report that arrives after the timeout has fired has
\* no observable effect: the wait stays as it is, nothing is logged as received and
\* no session state changes.
C2_TimeoutThenLateReportIgnored ==
  [](C2_TimeoutOnlyWithoutMatch) /\ [][C2_LateReportNoEffect]_vars

\* ---- C3
C3_OneOutcome ==
  \A w \in WaitIds :
    /\ wait[w].st = "resolved" => (~wait[w].armed /\ wait[w].err = "")
    /\ wait[w].st = "rejected" => (~wait[w].armed /\ wait[w].result = <<>>)

C3_SettledStays ==
  \A w \in WaitIds :
    Settled(w) =>
      /\ wait'[w].st = wait[w].st
      /\ wait'[w].result = wait[w].result
      /\ wait'[w].err = wait[w].err
      /\ ~wait'[w].armed
      /\ task'[wait[w].owner] = task[wait[w].owner]

\* C3: a receivePacket wait is settled by exactly one of match, timeout and
\* disconnect, and exactly once: once it is resolved its timer is cancelled and never
\* rejects it, and once it is rejected no report resolves it; its outcome and what its
\* caller got never change afterwards.
C3_SettlesExactlyOnce == [](C3_OneOutcome) /\ [][C3_SettledStays]_vars

C3_Witness ==
  \E w1, w2 \in WaitIds :
    /\ wait[w1].st = "resolved"
    /\ wait[w2].st = "rejected" /\ wait[w2].disc

\* ---- C4
\* C4: a receivePacket wait that is outstanding when the peripheral disconnects or
\* disconnect() runs fails with a Disconnected outcome, not with a Timeout.
C4_DisconnectFailsWait ==
  \A w \in WaitIds :
    (wait[w].disc /\ wait[w].st = "rejected") => wait[w].err = "Device disconnected"

\* ---- C5
\* C5: once a receivePacket wait has settled, its inputreport listener is no longer
\* registered on the device it was added to.
C5_SettledDeregistered ==
  \A w \in WaitIds : Settled(w) => ~InSeq(w, listeners[wait[w].dev])

\* ---- C6
\* C6: at most one pending wait is registered per report identifier of a session.
C6_OnePendingPerId ==
  \A w1, w2 \in WaitIds :
    (wait[w1].st = "pending" /\ wait[w2].st = "pending" /\ wait[w1].id = wait[w2].id
       /\ wait[w1].dev = wait[w2].dev)
      => w1 = w2

\* ---- C7
C7_Failed(t) ==
  /\ task'[t].pc = "failed"
  /\ task'[t].err \in NotConnectedErrors
  /\ wire' = wire
  /\ TxLogged(log') = TxLogged(log)
  /\ listeners' = listeners
  /\ wait' = wait
  /\ nextWait' = nextWait

C7_Step ==
  \A t \in Tasks :
    /\ (~isConnected /\ task[t].op = "none" /\ task'[t].op # "none")
          => (C7_Failed(t) /\ log' = log)
    /\ (~isConnected /\ task[t].pc = "sending" /\ task'[t].pc # "sending"
          /\ task[t].op = "getCounter" /\ task'[t].err # "transport")
          => C7_Failed(t)

\* C7: a sendReport, sendFeatureReport or receivePacket call made while the session
\* has no device or its device is not open fails at once with a not-connected error
\* and makes no transport call: no report is written, no listener is registered, no
\* timer is started and no tx log entry is produced.
C7_NotConnectedNoTransport == [][C7_Step]_vars

C7_Witness ==
  /\ \E t \in Tasks : task[t].op = "sendReport" /\ task[t].pc = "failed"
  /\ \E t \in Tasks : task[t].op = "sendFeatureReport" /\ task[t].pc = "failed"
  /\ \E t \in Tasks : task[t].op = "receivePacket" /\ task[t].pc = "failed"
                      /\ task[t].err = "Device disconnected"

\* ---- C8
SentBy(t) == SelectSeq(wire, LAMBDA r : r.by = t)
Sends(t) == task[t].op = "sendFragmentedData" /\ Len(task[t].arg) = 128

\* C8: for every 128-byte payload sendFragmentedData sends exactly 3 reports, all
\* output reports on identifier 0x02, whose data lengths are 62, 62 and 4 in that
\* order and whose data are the payload bytes [0,62), [62,124) and [124,128); a call
\* that a failing send cuts short has sent the first of them.
C8_ThreeReports ==
  \A t \in Tasks :
    Sends(t) =>
      LET sent == SentBy(t) IN
      /\ Len(sent) <= 3
      /\ task[t].pc = "ok" => Len(sent) = 3
      /\ \A k \in 1..Len(sent) :
           LET from == <<0, 62, 124>>[k]
               to == <<62, 124, 128>>[k]
           IN /\ sent[k].kind = "output"
              /\ sent[k].id = 2
              /\ sent[k].data[1] = to - from
              /\ SubSeq(sent[k].data, 2, 1 + to - from) = SubSeq(task[t].arg, from + 1, to)

C8_Witness ==
  \E t \in Tasks : Sends(t) /\ task[t].pc = "ok" /\ Len(SentBy(t)) = 3

\* ---- C9
\* C9: every report built by sendFragmentedData has the length-prefixed layout: its
\* byte 0 is the length of its chunk, a value in 0..62, the bytes 1..length are the
\* bytes of the chunk, and every byte after them up to the 63 bytes of the report
\* is zero.
C9_LengthPrefixedLayout ==
  \A t \in Tasks :
    Sends(t) =>
      LET sent == SentBy(t)
          chunks == Chunks(task[t].arg)
      IN \A k \in 1..Len(sent) :
        LET data == sent[k].data
            chunk == chunks[k]
        IN /\ Len(data) = 63
           /\ data[1] = Len(chunk)
           /\ data[1] \in 0..62
           /\ SubSeq(data, 2, 1 + Len(chunk)) = chunk
           /\ SubSeq(data, 2 + Len(chunk), 63) = Zeros(62 - Len(chunk))

C9_Witness ==
  \E t \in Tasks :
    /\ Sends(t)
    /\ \E k \in 1..Len(SentBy(t)) :
         LET data == SentBy(t)[k].data
         IN data[1] = 4 /\ data[5] = task[t].arg[128] /\ data[5] # 0 /\ data[63] = 0

\* ---- C10
\* the reassembly rule of receiveFragmentedData applied to packets in order
RECURSIVE Reassemble(_, _, _)
Reassemble(buf, offset, packets) ==
  IF packets = <<>> THEN [thrown |-> FALSE, buf |-> buf]
  ELSE LET r == ReassembleStep(buf, offset, Head(packets))
       IN IF r.thrown THEN [thrown |-> TRUE, buf |-> buf]
          ELSE Reassemble(r.buf, r.offset, Tail(packets))

Receives(t) == task[t].op = "receiveFragmentedData" /\ task[t].pc = "ok"

\* each license with its five length-prefixed reports
Exchanges ==
  {[lic |-> lic, reports |-> SplitLicense(lic, plan)] : lic \in Licenses, plan \in SplitPlans}

\* C10: round trip.  The reassembly rule of receiveFragmentedData, applied to the
\* three reports a completed sendFragmentedData wrote, gives back its 128-byte
\* payload; and receiveFragmentedData, handed the five length-prefixed reports of a
\* 256-byte license unaltered and in order, returns that license.
C10_RoundTrip ==
  /\ \A t \in Tasks :
       (Sends(t) /\ task[t].pc = "ok") =>
         LET sent == SentBy(t)
             r == Reassemble(Zeros(128), 0, [k \in 1..Len(sent) |-> sent[k].data])
         IN ~r.thrown /\ r.buf = task[t].arg
  /\ \A t \in Tasks :
       Receives(t) =>
         \A e \in Exchanges : task[t].got = e.reports => task[t].res = e.lic

C10_Witness ==
  /\ \E t \in Tasks : Sends(t) /\ task[t].pc = "ok"
  /\ \E t \in Tasks : Receives(t) /\ task[t].res \in Licenses /\ Len(task[t].got) = 5

\* ---- C11
InvalidArgument == "UUID must be 128 bytes."
LicenseRequests == SelectSeq(wire, LAMBDA r : r.id = GET_LICENSE_OUT)

\* C11: sendFragmentedData called with a payload whose length is not 128 (0, 127 or
\* 129 bytes) fails at once with the invalid-argument error and sends nothing: no
\* report of it reaches the transport and no tx entry is logged for it.
C11_BadLengthRejected ==
  /\ \A t \in Tasks :
       (task[t].op = "sendFragmentedData" /\ Len(task[t].arg) # 128) =>
         /\ task[t].pc = "failed"
         /\ task[t].err = InvalidArgument
         /\ SentBy(t) = <<>>
  /\ CopiesIn(LogEntry("tx", GET_LICENSE_OUT), log) = Len(LicenseRequests)

C11_Witness ==
  \E t0, t1, t2 \in Tasks :
    /\ task[t0].op = "sendFragmentedData" /\ Len(task[t0].arg) = 0
    /\ task[t1].op = "sendFragmentedData" /\ Len(task[t1].arg) = 127
    /\ task[t2].op = "sendFragmentedData" /\ Len(task[t2].arg) = 129
    /\ task[t0].pc = "failed" /\ task[t1].pc = "failed" /\ task[t2].pc = "failed"

\* ---- C12
WaitsOf(t) == {w \in WaitIds : wait[w].st # "none" /\ wait[w].owner = t}

C12_FiveWaits ==
  \A t \in Tasks :
    task[t].op = "receiveFragmentedData" =>
      /\ \A w \in WaitsOf(t) : wait[w].id = 1
      /\ Cardinality(WaitsOf(t)) <= 5
      /\ \A w \in WaitsOf(t) :
           wait[w].st = "pending" => (wait[w].armed /\ \A v \in WaitsOf(t) : v <= w)
      /\ \A w, v \in WaitsOf(t) : v < w => wait[v].st = "resolved"
      /\ task[t].pc = "ok" =>
           /\ Cardinality(WaitsOf(t)) = 5
           /\ \A w \in WaitsOf(t) : wait[w].st = "resolved"
      /\ \A w \in WaitsOf(t) :
           (wait[w].st = "rejected" /\ wait[w].err = TimeoutError) =>
             /\ task[t].pc = "failed"
             /\ task[t].err = TimeoutError
             /\ task[t].res = <<>>

\* each wait of receiveFragmentedData starts with the full 3000 ms
C12_OwnDeadline ==
  \A w \in WaitIds :
    (wait[w].st = "none" /\ wait'[w].st = "pending"
       /\ task'[wait'[w].owner].op = "receiveFragmentedData")
      => (wait'[w].armed /\ wait'[w].left = 3000 \div TickMs)

\* C12: receiveFragmentedData awaits exactly 5 inbound reports on identifier 0x01, one
\* after another, each with its own 3000 ms deadline; when one of the waits times out
\* the call fails with that Timeout and returns no buffer, neither a partial nor a
\* zero-padded one.
C12_FiveWaitsOrTimeout == [](C12_FiveWaits) /\ [][C12_OwnDeadline]_vars

C12_Witness ==
  \E t \in Tasks :
    /\ task[t].op = "receiveFragmentedData" /\ task[t].pc = "failed"
    /\ task[t].err = TimeoutError
    /\ Cardinality(WaitsOf(t)) = 3

\* ---- C13
RECURSIVE LengthSum(_)
LengthSum(packets) ==
  IF packets = <<>> THEN 0 ELSE Head(packets)[1] + LengthSum(Tail(packets))

\* C13: when receiveFragmentedData has received 5 reports whose length bytes sum to
\* fewer than 256, the call fails; it returns no buffer.
C13_ShortTotalFails ==
  \A t \in Tasks :
    (task[t].op = "receiveFragmentedData" /\ Len(task[t].got) = 5
       /\ LengthSum(task[t].got) < 256)
      => (task[t].pc = "failed" /\ task[t].res = <<>>)

\* ---- C14
\* C14: during the reassembly of receiveFragmentedData the write offset never exceeds
\* 256, and a fragment that reports more data than the buffer has room for is cut to
\* the room left: it neither overruns the buffer nor raises an error.
C14_TruncatedToCapacity ==
  \A t \in Tasks :
    task[t].op = "receiveFragmentedData" =>
      /\ task[t].offset <= 256
      /\ Len(task[t].buf) = 256
      /\ task[t].err # "RangeError"

\* ---- C15
\* the bytes of packets that the reassembly rule copies, in order
RECURSIVE Copied(_)
Copied(packets) ==
  IF packets = <<>> THEN <<>>
  ELSE Slice(Head(packets), 1, 1 + Head(packets)[1]) \o Copied(Tail(packets))

\* C15: reassembly copies only bytes that were received: for a report shorter than
\* 1 + its length byte the bytes present are copied and the offset advances by the
\* number of bytes copied, so what receiveFragmentedData has assembled is the bytes
\* copied so far, without a gap between consecutive chunks.
C15_OnlyReceivedBytes ==
  \A t \in Tasks :
    (task[t].op = "receiveFragmentedData" /\ task[t].err # "RangeError") =>
      LET copied == Copied(task[t].got)
      IN /\ task[t].offset = Len(copied)
         /\ SubSeq(task[t].buf, 1, Len(copied)) = copied

\* ---- C16
\* the first n packets of task t lie in its buffer, each at the offset that is the sum
\* of the length bytes of the packets before it
Placed(t, n) ==
  \A k \in 1..n :
    LET packet == task[t].got[k]
        data == Slice(packet, 1, 1 + packet[1])
        at == LengthSum(SubSeq(task[t].got, 1, k - 1))
    IN SubSeq(task[t].buf, at + 1, at + Len(data)) = data

C16_PlacedInOrder ==
  /\ \A t \in Tasks :
       task[t].op = "receiveFragmentedData" =>
         /\ task[t].i <= Len(task[t].got)
         /\ Placed(t, task[t].i)
         /\ task[t].offset = LengthSum(SubSeq(task[t].got, 1, task[t].i))
  /\ \A w \in WaitIds : wait[w].st = "pending" => InSeq(w, listeners[wait[w].dev])

\* a report the dongle delivers on the device a wait of receiveFragmentedData is
\* pending on is the next packet of that call, once; nothing else adds a packet
C16_NoneSkipped ==
  \A t \in Tasks :
    task[t].op = "receiveFragmentedData" =>
      IF /\ DongleDeliver
         /\ \E w \in WaitsOf(t) : wait[w].st = "pending" /\ wait[w].dev = dongle.dev
      THEN task'[t].got = Append(task[t].got, Head(dongle.queue))
      ELSE task'[t].got = task[t].got

\* C16: the license reports are consumed in arrival order: the data of the i-th
\* report is placed at the offset that is the sum of the lengths of the earlier ones,
\* and every report the dongle delivers while receiveFragmentedData waits, also
\* between two of its consecutive waits, becomes its next packet: none is skipped,
\* duplicated or reordered.
C16_ArrivalOrder == [](C16_PlacedInOrder) /\ [][C16_NoneSkipped]_vars

C16_Witness ==
  \E t \in Tasks :
    /\ task[t].op = "receiveFragmentedData" /\ task[t].pc = "ok"
    /\ task[t].got \in Responses \cup FaultyResponses
    /\ task[t].i = 5

C18_OneRequestOneWait ==
  \A t \in Tasks :
    task[t].op \in CounterOps =>
      LET sent == SentBy(t) IN
      /\ Len(sent) <= 1
      /\ \A k \in 1..Len(sent) :
           /\ sent[k].kind = "output"
           /\ sent[k].id = GET_COUNTER_OUT
           /\ sent[k].data = Zeros(63)
      /\ Cardinality(WaitsOf(t)) <= 1
      /\ \A w \in WaitsOf(t) :
           /\ wait[w].id = GET_COUNTER_IN
           /\ Len(sent) = 1
           /\ wait[w].st = "pending" =>
                wait[w].armed /\ wait[w].left \in 0..(CounterTimeoutMs \div TickMs)
      /\ task[t].pc = "sending" => (Len(sent) = 1 /\ WaitsOf(t) = {})
      /\ task[t].pc = "waiting" => \E w \in WaitsOf(t) : wait[w].st = "pending"
      /\ (task[t].pc = "ok" /\ task[t].res # Null) =>
           (Len(sent) = 1 /\ \E w \in WaitsOf(t) : wait[w].st = "resolved")

C18_Witness ==
  \E t \in Tasks, w \in WaitIds :
    /\ task[t].op \in CounterOps
    /\ w \in WaitsOf(t)
    /\ wait[w].st = "rejected" /\ wait[w].err = TimeoutError
    /\ task[t].pc \in {"ok", "failed"}
    /\ Len(SentBy(t)) = 1

\* ---- C19
\* C19: no client operation swallows an error of receivePacket: when a wait inside
\* getCounter, receiveFragmentedData or readUUID fails with the timeout error, the
\* operation fails with that error and never returns a value (a number, null, a
\* partial buffer).
C19_TimeoutFailsOperation ==
  \A w \in WaitIds :
    (/\ wait[w].st = "rejected"
     /\ wait[w].err = TimeoutError
     /\ task[wait[w].owner].op \in CounterOps \cup {"receiveFragmentedData"}) =>
       /\ task[wait[w].owner].pc = "failed"
       /\ task[wait[w].owner].err = TimeoutError

\* ---- C20
\* C20: every report a client operation hands to the transport (the counter
\* request, the identifier chunks, the identifier request, the license write, a
\* manually entered report) has a byte length of at most 64, the maximum report size.
C20_ReportsWithinSize ==
  \A k \in 1..Len(wire) : Len(wire[k].data) <= REPORT_SIZE

\* ---- C21
\* C21: readUUID sends one report with empty data on identifier 0x80 and waits once
\* on identifier 0x81; a response of at least 128 bytes makes it return exactly the
\* first 128 bytes, a response of fewer than 128 bytes makes it fail with the
\* incomplete-data error and return nothing.
C21_SingleReportReadUUID ==
  \A t \in Tasks :
    task[t].op = "readUUID" =>
      LET sent == SentBy(t) IN
      /\ Len(sent) <= 1
      /\ \A k \in 1..Len(sent) :
           sent[k].kind = "output" /\ sent[k].id = GET_UUID_REQUEST /\ sent[k].data = <<>>
      /\ Cardinality(WaitsOf(t)) <= 1
      /\ \A w \in WaitsOf(t) :
           /\ wait[w].id = GET_UUID_RESPONSE
           /\ Len(sent) = 1
           /\ (wait[w].st = "resolved" /\ Len(wait[w].result) >= 128) =>
                /\ task[t].pc = "ok"
                /\ Len(task[t].res) = 128
                /\ task[t].res = SubSeq(wait[w].result, 1, 128)
           /\ (wait[w].st = "resolved" /\ Len(wait[w].result) < 128) =>
                /\ task[t].pc = "failed"
                /\ task[t].err = UuidIncomplete
                /\ task[t].res = <<>>
      /\ task[t].pc = "ok" => \E w \in WaitsOf(t) : wait[w].st = "resolved"

C21_Witness ==
  \E t1, t2 \in Tasks, w1, w2 \in WaitIds :
    /\ task[t1].op = "readUUID" /\ task[t2].op = "readUUID"
    /\ w1 \in WaitsOf(t1) /\ w2 \in WaitsOf(t2)
    /\ Len(wait[w1].result) > 128 /\ task[t1].pc = "ok"
    /\ wait[w2].st = "resolved" /\ Len(wait[w2].result) < 128 /\ task[t2].pc = "failed"

\* ---- C22
RECURSIVE Flatten(_)
Flatten(packets) == IF packets = <<>> THEN <<>> ELSE Head(packets) \o Flatten(Tail(packets))
Collected(t) ==
  LET all == Flatten(task[t].got) IN SubSeq(all, 1, Min(Len(all), UUID_LENGTH))
LastWait(t) == CHOOSE w \in WaitsOf(t) : \A v \in WaitsOf(t) : v <= w

C22_Truncated ==
  \E t \in Tasks :
    /\ task[t].op = "readUUIDMulti" /\ task[t].pc = "ok" /\ Len(task[t].got) = 2
    /\ Len(Flatten(task[t].got)) > 128 /\ Len(task[t].res) = 128

\* ---- C23
WriteOps == {"writeLicense", "writeLicenseChunked", "MockDeviceClient.writeLicense"}

\* C23: writeLicense called with a license whose length is not 256 fails at once with
\* the invalid-argument error and sends no report to the target, in the
\* single-report variant, the chunked variant and the mock target alike.
C23_BadLicenseRejected ==
  /\ \A t \in Tasks :
       (task[t].op \in WriteOps /\ Len(task[t].arg) # 256) =>
         /\ task[t].pc = "failed"
         /\ task[t].err = LicenseLengthError
         /\ SentBy(t) = <<>>
  /\ (\A t \in Tasks : task[t].op \in WriteOps => Len(task[t].arg) # 256) =>
       /\ wire = <<>>
       /\ \A e \in BagToSet(log) : e.id # STORE_LICENSE

C23_Witness ==
  \E t1, t2, t3 \in Tasks :
    /\ task[t1].op = "writeLicense" /\ Len(task[t1].arg) = 255 /\ task[t1].pc = "failed"
    /\ task[t2].op = "writeLicenseChunked" /\ Len(task[t2].arg) = 257 /\ task[t2].pc = "failed"
    /\ task[t3].op = "MockDeviceClient.writeLicense" /\ Len(task[t3].arg) = 255
    /\ task[t3].pc = "failed"

\* ---- C24
WritesChunked(t) == task[t].op = "writeLicenseChunked" /\ Len(task[t].arg) = 256
ChunkLength(k) == Min(LICENSE_CHUNK_SIZE, 256 - LICENSE_CHUNK_SIZE * k)

\* the reports of a chunked write are on 0x82, at most 5, in increasing offset order,
\* and the k-th starts with license bytes [63k, min(63k + 63, 256))
C24_ChunksInOrder ==
  \A t \in Tasks :
    WritesChunked(t) =>
      LET sent == SentBy(t) IN
      /\ Len(sent) <= 5
      /\ \A k \in 1..Len(sent) :
           /\ sent[k].kind = "output" /\ sent[k].id = STORE_LICENSE
           /\ Len(sent[k].data) >= ChunkLength(k - 1)
           /\ SubSeq(sent[k].data, 1, ChunkLength(k - 1))
                = SubSeq(task[t].arg, LICENSE_CHUNK_SIZE * (k - 1) + 1,
                         LICENSE_CHUNK_SIZE * (k - 1) + ChunkLength(k - 1))
      /\ WaitsOf(t) = {}
      /\ task[t].pc = "ok" => Len(sent) = 5
      /\ task[t].pc = "failed" => task[t].err \in NotConnectedErrors \cup {"transport"}

\* the data of the reports of a completed chunked write, concatenated, are the license
C24_ConcatenationIsLicense ==
  \A t \in Tasks :
    (WritesChunked(t) /\ task[t].pc = "ok") =>
      Flatten([k \in 1..Len(SentBy(t)) |-> SentBy(t)[k].data]) = task[t].arg

\* C24: the chunked writeLicense of a 256-byte license sends exactly 5 reports on
\* identifier 0x82, one after another in increasing offset order and without a
\* length prefix; the k-th report starts with license bytes [63k, min(63k + 63, 256)),
\* so the data of the 5 reports concatenated in send order are the license; no
\* acknowledgement is awaited and the call succeeds exactly when all 5 sends completed.
C24_ChunkedWrite == C24_ChunksInOrder /\ C24_ConcatenationIsLicense

\* a chunked write completed
C24_Completed == \E t \in Tasks : WritesChunked(t) /\ task[t].pc = "ok"

\* ---- C25
\* C25: a session holds at most one connection: after any sequence of connect() and
\* disconnect() calls at most one device the session opened is still open, and it is
\* the one the session's handle refers to; a connect() on a connected session leaves
\* no earlier device open and unreferenced.
C25_AtMostOneConnection ==
  \A d \in Devices : (opened[d] /\ conn.pc = "idle") => d = device

\* ---- C26
Connected(l) == CopiesIn(LogEntry("success", 0), l)

\* without navigator.hid nothing is requested or opened and the session stays
\* disconnected; connect() has failed with NotSupported or was not called
C26_NotSupported ==
  ~hid =>
    /\ device = NoDevice /\ conn.pc = "idle" /\ ~isConnected
    /\ \A d \in Devices : ~opened[d]
    /\ uiError \in {"", NotSupported}

\* a connect() that fails with NoDeviceSelected opens nothing and leaves the handle
\* as it is; a connect() that succeeds leaves the session's device open
C26_Step ==
  /\ (uiError' = NoDeviceSelected /\ uiError # NoDeviceSelected) =>
       /\ UNCHANGED <<device, opened, conn, log>>
       /\ ~isConnected => ~isConnected'
  /\ (uiError' = NotSupported /\ uiError # NotSupported) =>
       (~hid /\ UNCHANGED <<device, opened, conn, log>>)
  /\ Connected(log') > Connected(log) =>
       (hid /\ device' # NoDevice /\ opened'[device'] /\ uiError' = "")

\* C26: connect() fails with NotSupported when navigator.hid is absent, without
\* requesting a device, and with NoDeviceSelected when the backend returns no device;
\* in both cases no device is opened and isConnected() stays false for a session that
\* was disconnected.  On success the session's device is open and isConnected() is
\* true.
C26_ConnectOutcomes == [](C26_NotSupported) /\ [][C26_Step]_vars

C26_Witness ==
  /\ hid /\ uiError = NoDeviceSelected /\ ~isConnected
  /\ Connected(log) > 0

\* ---- C27
MultiStepOps == {"sendFragmentedData", "receiveFragmentedData"}

\* the peripheral a multi-step operation works with is no longer open:
\* sendFragmentedData sends its next chunk to this.device, receiveFragmentedData
\* waits on the device its pending wait was registered on
PeripheralGone(t) ==
  IF task[t].op = "sendFragmentedData"
  THEN ~isConnected /\ Len(SentBy(t)) < 3
  ELSE \E w \in WaitsOf(t) : wait[w].st = "pending" /\ ~opened[wait[w].dev]

\* a multi-step operation that takes its next step after its peripheral went away
\* fails there: sendFragmentedData between two chunks, receiveFragmentedData in a wait
C27_AbortsAtNextStep ==
  \A t \in Tasks :
    (/\ task[t].op \in MultiStepOps
     /\ task[t].pc \in {"sending", "waiting"}
     /\ PeripheralGone(t)
     /\ task'[t] # task[t]) =>
       /\ task'[t].pc = "failed"
       /\ wire' = wire

\* a call made while the device is not open fails at once and reaches no transport
C27_FurtherCallsFail ==
  \A t \in Tasks :
    (~isConnected /\ task[t].op = "none" /\ task'[t].op \in MultiStepOps) =>
      /\ task'[t].pc = "failed"
      /\ wire' = wire
      /\ \A w \in WaitIds : wait'[w].st = wait[w].st

\* a device becomes open only where a connect() call opens it
C27_NoAutomaticReconnect ==
  \A d \in Devices : (opened'[d] /\ ~opened[d]) => (conn.pc = "open" /\ conn.dev = d)

\* C27: when the peripheral disconnects in the middle of a multi-step operation
\* (between the chunks of sendFragmentedData, between the 5 waits of
\* receiveFragmentedData) the operation aborts with a failure at its next step, the
\* session reports isConnected() = false, and every further send or receive fails
\* until a later connect() succeeds; nothing reconnects by itself.
C27_DisconnectAborts ==
  /\ [][C27_AbortsAtNextStep /\ C27_FurtherCallsFail /\ C27_NoAutomaticReconnect]_vars
  /\ [][\A d \in Devices : (opened[d] /\ ~opened'[d] /\ device = d) => ~isConnected']_vars

C27_Witness ==
  \E t \in Tasks, w \in WaitIds :
    /\ task[t].op = "receiveFragmentedData" /\ task[t].pc = "failed"
    /\ Len(task[t].got) >= 1
    /\ w \in WaitsOf(t) /\ wait[w].disc /\ wait[w].st = "rejected"

\* a sendFragmentedData cut short between two chunks
C27_SendCutShort ==
  \E t \in Tasks :
    /\ task[t].op = "sendFragmentedData" /\ task[t].pc = "failed"
    /\ Len(SentBy(t)) \in {1, 2} /\ task[t].err \in NotConnectedErrors

\* ---- C28
\* a report of the dongle's response arrives (all of them come after the request was
\* handed to the transport) and a wait of the exchange resolves with it
C28_Observed ==
  (dongle.queue # <<>> /\ dongle'.queue = Tail(dongle.queue)) =>
    \E w \in WaitIds :
      /\ wait[w].st = "pending" /\ wait'[w].st = "resolved"
      /\ wait'[w].result = Head(dongle.queue)

\* C28: no response is lost to the gap between send and wait: a matching response
\* report that the peripheral delivers at any time after the request report was
\* handed to the transport is observed by the operation's wait, also when it arrives
\* before the wait's listener is registered.
C28_NoResponseLost == [][C28_Observed]_vars

\* ---- C29
ResolvedNow == {w \in WaitIds : wait[w].st = "pending" /\ wait'[w].st = "resolved"}

\* C29: each inbound report resolves at most one wait: with two receivePacket waits
\* for the same identifier outstanding on one device (two overlapping getCounter
\* calls) one inbound report goes to one of them only, and the other keeps waiting
\* for the next report or its own deadline.
C29_OneWaitPerReport == [][Cardinality(ResolvedNow) <= 1]_vars

\* ---- C30
\* C30: every receivePacket call settles in the end: provided the deadline timer
\* fires, in every interleaving of inbound reports, unplugged peripherals and
\* disconnect() calls the promise is resolved or rejected, so no operation awaiting
\* it (getCounter, receiveFragmentedData, readUUID) stays suspended for ever.  The
\* calls of a behaviour are finitely many and a settled promise stays settled, so
\* this is: from some point on no wait is pending and no operation is waiting.
C30_EventuallySettles ==
  <>[](/\ \A w \in WaitIds : wait[w].st # "pending"
       /\ \A t \in Tasks : task[t].pc # "waiting")

C30_Witness ==
  \E w1, w2 \in WaitIds :
    /\ wait[w1].st = "rejected" /\ wait[w1].err = TimeoutError /\ wait[w1].disc
    /\ wait[w2].st = "resolved"
    /\ task[wait[w1].owner].pc = "failed"

\* ---- C31
\* C31: the accumulation loop of the multi-packet readUUID runs a bounded number of
\* iterations, at most 128 received packets, for every inbound sequence (reports of
\* zero bytes included): while the loop runs every packet it has received has
\* advanced bytesRead by at least one byte, and bytesRead stays below 128.
C31_BoundedIterations ==
  \A t \in Tasks :
    task[t].op = "readUUIDMulti" =>
      /\ Len(task[t].got) <= UUID_LENGTH
      /\ task[t].pc = "waiting" =>
           /\ task[t].offset < UUID_LENGTH
           /\ Len(task[t].got) <= task[t].offset

\* the loop went round on zero-byte reports: packets received, bytesRead still 0, and
\* the next receivePacket registered
C31_LoopStalled ==
  \E t \in Tasks, w \in WaitIds :
    /\ task[t].op = "readUUIDMulti" /\ task[t].pc = "waiting"
    /\ Len(task[t].got) = MaxRx /\ task[t].offset = 0
    /\ wait[w].owner = t /\ wait[w].st = "pending"

\* ---- C32
\* while a chunk is in flight it is the only one: the reports handed over are the
\* completed sends plus the one in flight; a call that failed handed over nothing
\* after the send that failed
C32_OneInFlight ==
  \A t \in Tasks :
    Sends(t) =>
      /\ task[t].pc = "sending" => (task[t].i < 3 /\ Len(SentBy(t)) = task[t].i + 1)
      /\ task[t].pc = "ok" => (task[t].i = 3 /\ Len(SentBy(t)) = 3)
      /\ task[t].pc = "failed" =>
           /\ task[t].err \in {"transport", "Device not connected"}
           /\ task[t].err = "transport" => Len(SentBy(t)) = task[t].i + 1
           /\ task[t].err = "Device not connected" => Len(SentBy(t)) = task[t].i

\* a chunk after the first is handed over in the step in which the send before it
\* completes, and a call that failed never sends again
C32_NextAfterCompletion ==
  \A t \in Tasks :
    /\ (Sends(t) /\ SentBy(t)' # SentBy(t)) =>
         /\ task[t].pc = "sending"
         /\ task'[t].i = task[t].i + 1
         /\ Len(SentBy(t)') = Len(SentBy(t)) + 1
    /\ (Sends(t) /\ task[t].pc = "failed") => (task'[t] = task[t] /\ SentBy(t)' = SentBy(t))

\* C32: sendFragmentedData hands its 3 chunks to the transport strictly one after
\* another: chunk i+1 is sent only after the send of chunk i has completed, and when
\* the send of chunk i fails (the transport rejects it, or the device is no longer
\* open) the error reaches the caller and no later chunk is sent.
C32_StrictlySequential ==
  /\ [](C32_OneInFlight)
  /\ [][C32_NextAfterCompletion]_vars

C32_Witness ==
  \E t1, t2 \in Tasks :
    /\ Sends(t1) /\ task[t1].pc = "failed" /\ task[t1].err = "transport"
    /\ task[t1].i = 1 /\ Len(SentBy(t1)) = 2
    /\ Sends(t2) /\ task[t2].pc = "failed" /\ task[t2].err = "Device not connected"
    /\ Len(SentBy(t2)) \in {1, 2}

\* ---- C33
\* a connect() call fails in this step: without WebHID or without a selected device
\* (it has not got past requestDevice), or after it awaited open()
C33_FailsEarly ==
  /\ conn.pc = "idle" /\ conn'.pc = "idle"
  /\ uiError' \in {NotSupported, NoDeviceSelected} /\ uiError' # uiError
C33_FailsAfterOpen == conn.pc = "open" /\ conn'.pc = "idle" /\ uiError' # ""

\* C33: a connect() call that fails for any reason (WebHID unavailable, no device
\* selected, open() rejecting) leaves the session's device handle exactly as it was
\* before the call.
C33_FailedConnectKeepsHandle ==
  [][/\ C33_FailsEarly => device' = device
     /\ C33_FailsAfterOpen => device' = conn.prev]_vars

\* the early failures leave the handle alone
C33_EarlyFailureKeepsHandle == [][C33_FailsEarly => device' = device]_vars

\* open() rejected on the first connect(): the session holds the unopened device
C33_HandleReplaced ==
  /\ conn.pc = "idle" /\ uiError = "open failed"
  /\ device # NoDevice /\ ~opened[device] /\ nOps = 1

\* ---- C34
Disconnected == LogEntry("info", 0)

\* disconnect() on a session that holds no device touches neither transport nor log,
\* and changes nothing at all once the provider shows the session as disconnected
C34_NoDeviceNoEffect ==
  (DisconnectCall /\ device = NoDevice) =>
    /\ UNCHANGED <<device, opened, listeners, dsc, log, wire, wait, task>>
    /\ (~uiConnected /\ uiError = "") => UNCHANGED vars

\* disconnect() on a session that holds a device calls close() on that device, and
\* when close() has resolved the device is closed, 'Disconnected' is logged once and
\* the handle is cleared
C34_ClosesOnce ==
  /\ (DisconnectCall /\ device # NoDevice) =>
       (dsc'.pc = "close" /\ dsc'.dev = device /\ log' = log)
  /\ DisconnectClosed =>
       /\ ~opened'[dsc.dev]
       /\ \A d \in Devices : d # dsc.dev => opened'[d] = opened[d]
       /\ log' = Logged(log, Disconnected)
       /\ device' = NoDevice /\ ~isConnected'
       /\ dsc'.pc = "idle" /\ ~uiConnected' /\ uiError' = ""

\* C34: disconnect() is idempotent: on a session that holds no device it performs no
\* transport call and emits no log entry; on a session that holds a device it closes
\* that device once and clears the handle, so isConnected() is false afterwards;
\* a second disconnect() right after the first finds the state the first one left
\* and leaves it as it is.
C34_DisconnectIdempotent == [][C34_NoDeviceNoEffect /\ C34_ClosesOnce]_vars

C34_Witness ==
  /\ device = NoDevice /\ dsc.pc = "idle" /\ conn.pc = "idle"
  /\ CopiesIn(Disconnected, log) = 1
  /\ \E d \in Devices : d \in dlisten /\ ~opened[d]
  /\ ~uiConnected /\ uiError = ""

\* ---- C37
\* C37: the connection state the provider shows agrees with the client: whenever no
\* connect() or disconnect() call is in flight, connectionState.isConnected is true
\* exactly when the client's current device is open.
C37_ProviderAgreesWithClient ==
  (conn.pc = "idle" /\ dsc.pc = "idle") => (uiConnected <=> isConnected)

\* C37, its particular case: a 'disconnect' event of a device of an earlier
\* connection does not mark the session disconnected while its current device is open
C37_StaleEventIgnored ==
  [][(isConnected /\ isConnected' /\ conn.pc = "idle" /\ dsc.pc = "idle" /\ uiConnected)
       => uiConnected']_vars

\* the current device is open and the provider shows the session as disconnected
C37_ShownDisconnected ==
  /\ conn.pc = "idle" /\ dsc.pc = "idle"
  /\ isConnected /\ ~uiConnected /\ uiError = "Device disconnected"

\* ---- C35
IsPrefix(a, b) == Len(a) <= Len(b) /\ SubSeq(b, 1, Len(a)) = a

\* the operations of a run are invoked in the order of the process, each after the
\* ones before it succeeded; 'complete' needs all five, a run that ended without
\* them shows 'error'
C35_InOrder ==
  /\ IsPrefix(page.calls, ProcessOrder)
  /\ page.done <= Len(page.calls) /\ Len(page.calls) <= page.done + 1
  /\ InSeq("writeLicense", page.calls) => (page.done >= 4 /\ page.written = page.returned)
  /\ page.step = "complete" => (page.done = 5 /\ page.calls = ProcessOrder /\ page.pc = "idle")
  /\ (page.pc = "idle" /\ page.calls # <<>> /\ page.done < 5) => page.step = "error"
  /\ page.step = "error" => (page.pc = "idle" /\ page.done < 5)

\* an operation after the first is invoked in the step in which the one before it
\* returned without an error; writeLicense gets the value receiveFragmentedData
\* returned in that step
C35_NextAfterSuccess ==
  (Len(page'.calls) = Len(page.calls) + 1 /\ page.calls # <<>>) =>
    /\ page.pc = "readUUID" \/ task[page.t].pc = "ok"
    /\ page'.done = Len(page.calls)
    /\ page'.calls[Len(page'.calls)] = "writeLicense" =>
         /\ task[page.t].op = "receiveFragmentedData"
         /\ page'.written = task[page.t].res
         /\ task'[page.t].arg = task[page.t].res

\* C35: in the automated process writeLicense is invoked only after readUUID, the
\* counter re-check, sendFragmentedData and receiveFragmentedData have completed
\* successfully in that order, and it is given exactly the buffer that
\* receiveFragmentedData returned; when a step fails the step shown becomes 'error'
\* and writeLicense is not invoked; 'complete' is reached only after writeLicense
\* succeeded.
C35_WriteAfterAllSteps == [](C35_InOrder) /\ [][C35_NextAfterSuccess]_vars

C35_Witness ==
  /\ page.step = "complete" /\ page.done = 5 /\ page.calls = ProcessOrder
  /\ page.written \in Licenses /\ task[page.t].arg = page.written

\* a run that failed in receiveFragmentedData and wrote nothing
C35_FailedBeforeWrite ==
  /\ page.step = "error" /\ page.done = 3 /\ Len(page.calls) = 4
  /\ task[page.t].op = "receiveFragmentedData" /\ task[page.t].pc = "failed"

\* ---- C36
IdentifierReports == SelectSeq(wire, LAMBDA r : r.kind = "output" /\ r.id = GET_LICENSE_OUT)
NotReady ==
  ~page.client \/ page.mock = <<>> \/ page.counter = Null \/ page.counter[1] <= 0

\* a report of the identifier goes to the dongle only in a run whose counter
\* re-read returned a value above 0
C36_SendsAfterRecheck ==
  (IdentifierReports' # IdentifierReports) =>
    /\ page'.recheck # Null /\ page'.recheck[1] > 0
    /\ page'.calls[Len(page'.calls)] = "sendFragmentedData"

\* handleStartProcess called without a client, without a mock device or without a
\* stored counter above 0 returns at once
C36_NotReadyNoEffect ==
  \A t \in Tasks :
    (NotReady /\ HandleStartProcess(t)) =>
      UNCHANGED <<page, task, wire, log, wait, listeners, nextWait>>

C36_ReturnedOnZero ==
  /\ page.counter = <<0>> /\ page.client /\ page.mock # <<>>
  /\ nOps = 3 /\ page.chk = 0 /\ page.step = "idle" /\ wire # <<>> /\ Len(wire) = 1
C36_ReturnedOnNull ==
  /\ page.counter = Null /\ page.client /\ page.mock # <<>>
  /\ nOps = 1 /\ device = NoDevice /\ page.step = "idle"

====
